---- MODULE Spec2Model ----
(***************************************************************************)
(* rbcp: the directory synchronization engine.                             *)
(*                                                                         *)
(* The file system is a map from paths (sequences of names) to nodes.      *)
(* CopyEngine::run, copy_directory, copy_file and copy_file_content are    *)
(* modelled as a tree of tasks, one per source path the run touches: the   *)
(* task of a directory is the copy_directory frame, the task of an entry   *)
(* is the process_entry closure applied to it.  With threads = 1 the       *)
(* entries of a batch run one at a time in enumeration order; with         *)
(* threads > 1 siblings interleave and a recorded error stops new starts   *)
(* (try_for_each).  The observer can set the cancel flag at any moment.    *)
(*                                                                         *)
(* Time: every file that exists before a run has an mtime in 1..MaxTime;   *)
(* a file written by the run gets the mtime Now.                           *)
(***************************************************************************)
EXTENDS Integers, Sequences, FiniteSets, TLC

\* ---------------------------------------------------------------- bounds
MaxTime == 2        \* mtimes of pre-existing files are 1..MaxTime
MaxSize == 1        \* file sizes, in chunks of the copy buffer, are 0..MaxSize
MaxRetries == 2     \* options.retries ranges over 0..MaxRetries
MaxLen == 3         \* longest path the file system accepts (components)
MaxRuns == 2        \* runs of the program in one behaviour
MaxEraseLen == 3    \* length of a file handed to the secure eraser, in bytes
EraseBuf == 2       \* BUFFER_SIZE of the secure eraser, scaled down
MaxNameLen == 3     \* length of a name handed to matches_pattern
MaxPatLen == 3      \* length of a pattern handed to matches_pattern
MaxWorkers == 2     \* threads that share one Statistics
MaxCalls == 2       \* add_* calls each of them makes
MaxLines == 3       \* lines handed to the on_log of one SharedProgress
MaxSnaps == 2       \* distinct snapshots handed to its on_progress
MaxTogglers == 4    \* threads that call toggle_pause on one SharedProgress

Now == MaxTime + 1

\* ------------------------------------------------------------ file names
\* The spelling of each file name, as the characters matches_pattern sees.
NameChars ==
  [n \in {"a", "b", "d", "s", "t", "u", "x"} |-> <<n>>]

StarPat == <<"*">>
APat == <<"a", "*">>
BPat == <<"b", "*">>
DotPat == <<"*", ".", "*">>

\* ---------------------------------------------------------------- paths
S == <<"s">>
T == <<"t">>
U == <<"u">>

Child(p, n) == Append(p, n)
Parent(p) == SubSeq(p, 1, Len(p) - 1)
Base(p) == p[Len(p)]
IsPrefix(p, q) == Len(p) <= Len(q) /\ SubSeq(q, 1, Len(p)) = p

FileNode(m, z) == [k |-> "file", mtime |-> m, size |-> z]
DirNode == [k |-> "dir", mtime |-> 0, size |-> 0]

exists(f, p) == p = <<>> \/ p \in DOMAIN f
is_file(f, p) == p \in DOMAIN f /\ f[p].k = "file"
is_dir(f, p) == p = <<>> \/ (p \in DOMAIN f /\ f[p].k = "dir")

\* fs::read_dir: the names of the entries of directory p
read_dir(f, p) == {Base(q) : q \in {r \in DOMAIN f : Len(r) = Len(p) + 1 /\ Parent(r) = p}}

Put(f, p, node) == [q \in DOMAIN f \cup {p} |-> IF q = p THEN node ELSE f[q]]
Remove(f, p) == [q \in DOMAIN f \ {p} |-> f[q]]
\* fs::remove_dir_all
remove_dir_all(f, p) == [q \in {r \in DOMAIN f : ~IsPrefix(p, r)} |-> f[q]]

Prefixes(p) == {SubSeq(p, 1, i) : i \in 1..Len(p)}
\* fs::create_dir_all fails when the path is too long or a component is a file
create_dir_all_ok(f, p) ==
  /\ Len(p) <= MaxLen
  /\ \A q \in Prefixes(p) : ~is_file(f, q)
create_dir_all(f, p) ==
  [q \in DOMAIN f \cup Prefixes(p) |-> IF q \in DOMAIN f THEN f[q] ELSE DirNode]

\* every permutation of a finite set of names, as sequences; ListDir is the
\* one order in which the purge step walks the destination entries
Orders(names) ==
  {o \in [1..Cardinality(names) -> names] : \A i, j \in DOMAIN o : i # j => o[i] # o[j]}

ListDir(f, p) == CHOOSE o \in Orders(read_dir(f, p)) : TRUE

\* ------------------------------------------------------- matches_pattern
RECURSIVE GlobWalk(_, _, _, _)
GlobWalk(pat, i, name, j) ==
  IF i > Len(pat) THEN j > Len(name)
  ELSE IF pat[i] = "*"
       THEN GlobWalk(pat, i + 1, name, j) \/ (j <= Len(name) /\ GlobWalk(pat, i, name, j + 1))
  ELSE IF pat[i] = "?"
       THEN j <= Len(name) /\ GlobWalk(pat, i + 1, name, j + 1)
  ELSE j <= Len(name) /\ name[j] = pat[i] /\ GlobWalk(pat, i + 1, name, j + 1)

\* Pattern::new rejects an unclosed '[' , three or more '*' in a row, and a
\* '**' that is not a whole path component.
GlobCompiles(pat) ==
  /\ \A i \in DOMAIN pat : pat[i] # "["
  /\ \A i \in DOMAIN pat : ~(i + 2 <= Len(pat) /\ pat[i] = "*" /\ pat[i + 1] = "*" /\ pat[i + 2] = "*")
  /\ \A i \in DOMAIN pat :
       (i + 1 <= Len(pat) /\ pat[i] = "*" /\ pat[i + 1] = "*") => (i = 1 /\ Len(pat) = 2)

GlobMatches(pat, name) == GlobWalk(pat, 1, name, 1)

StartsWith(name, pre) == Len(pre) <= Len(name) /\ SubSeq(name, 1, Len(pre)) = pre
EndsWith(name, suf) ==
  Len(suf) <= Len(name) /\ SubSeq(name, Len(name) - Len(suf) + 1, Len(name)) = suf
Contains(name, sub) ==
  \E i \in 1..(Len(name) + 1) : i + Len(sub) - 1 <= Len(name) /\ SubSeq(name, i, i + Len(sub) - 1) = sub

matches_pattern(name, pat) ==
  IF GlobCompiles(pat) /\ GlobMatches(pat, name) THEN TRUE
  ELSE IF pat = StarPat \/ pat = DotPat THEN TRUE
  ELSE IF Len(pat) > 0 /\ pat[1] = "*"
       THEN IF pat[Len(pat)] = "*"
            THEN Contains(name, SubSeq(pat, 2, Len(pat) - 1))
            ELSE EndsWith(name, Tail(pat))
  ELSE IF Len(pat) > 0 /\ pat[Len(pat)] = "*"
       THEN StartsWith(name, SubSeq(pat, 1, Len(pat) - 1))
  ELSE name = pat

\* options.patterns.iter().any(|p| matches_pattern(&file_name, p))
MatchesAny(o, n) == \E i \in DOMAIN o.patterns : matches_pattern(NameChars[n], o.patterns[i])

\* scan_source (engine.rs 297-358): the number of files the scan counts
\* under p; a directory that cannot be read counts for nothing
RECURSIVE scan_source(_, _, _, _)
scan_source(f, o, bad, p) ==
  LET RECURSIVE Sum(_)
      Sum(ns) ==
        IF ns = {} THEN 0
        ELSE LET n == CHOOSE m \in ns : TRUE
                 q == Append(p, n)
                 one == IF q \in DOMAIN f /\ f[q].k = "dir"
                          THEN IF o.recursive THEN scan_source(f, o, bad, q) ELSE 0
                        ELSE IF MatchesAny(o, n) THEN 1 ELSE 0
             IN one + Sum(ns \ {n})
  IN IF p \in DOMAIN f /\ f[p].k = "dir"
       THEN IF p \in bad THEN 0
            ELSE Sum({q[Len(q)] : q \in {r \in DOMAIN f : Len(r) = Len(p) + 1 /\ SubSeq(r, 1, Len(p)) = p}})
     ELSE IF p \in DOMAIN f /\ MatchesAny(o, p[Len(p)]) THEN 1
     ELSE 0

\* scan_source, the bytes it counts under p: the length of every file it
\* counts
RECURSIVE scan_source_bytes(_, _, _, _)
scan_source_bytes(f, o, bad, p) ==
  LET RECURSIVE Sum(_)
      Sum(ns) ==
        IF ns = {} THEN 0
        ELSE LET n == CHOOSE m \in ns : TRUE
                 q == Append(p, n)
                 one == IF q \in DOMAIN f /\ f[q].k = "dir"
                          THEN IF o.recursive THEN scan_source_bytes(f, o, bad, q) ELSE 0
                        ELSE IF MatchesAny(o, n) THEN f[q].size ELSE 0
             IN one + Sum(ns \ {n})
  IN IF p \in DOMAIN f /\ f[p].k = "dir"
       THEN IF p \in bad THEN 0
            ELSE Sum({q[Len(q)] : q \in {r \in DOMAIN f : Len(r) = Len(p) + 1 /\ SubSeq(r, 1, Len(p)) = p}})
     ELSE IF p \in DOMAIN f /\ MatchesAny(o, p[Len(p)]) THEN f[p].size
     ELSE 0

\* ------------------------------------------------------ should_copy_file
\* an equal timestamp with a different size no longer triggers a copy
should_copy_file_no_size(src_meta, dst_exists, dst_meta, force_overwrite) ==
  IF force_overwrite THEN TRUE
  ELSE IF ~dst_exists THEN TRUE
  ELSE src_meta.mtime > dst_meta.mtime

\* a destination of the same age counts as older
should_copy_file_ge(src_meta, dst_exists, dst_meta, force_overwrite) ==
  IF force_overwrite THEN TRUE
  ELSE IF ~dst_exists THEN TRUE
  ELSE src_meta.mtime >= dst_meta.mtime

should_copy_file(src_meta, dst_exists, dst_meta, force_overwrite) ==
  IF force_overwrite THEN TRUE
  ELSE IF ~dst_exists THEN TRUE
  ELSE IF src_meta.mtime > dst_meta.mtime THEN TRUE
  ELSE IF src_meta.mtime = dst_meta.mtime /\ src_meta.size # dst_meta.size THEN TRUE
  ELSE FALSE

\* ------------------------------------------------------------- the state
VARIABLES
  fs,          \* the file system: path -> node, for the paths that exist
  fs0,         \* the file system as it was when the current run started
  opts,        \* CopyOptions of the run
  flaky,       \* paths whose I/O fails: a file's transfer may fail with an
               \* I/O error, a directory cannot be enumerated
  cancel,      \* SharedProgress.cancel_flag
  cancelSeen,  \* some is_cancelled() call of this run has returned true
  stats,       \* Statistics of the engine
  obsLog,      \* lines handed to ProgressCallback::on_log
  logLog,      \* lines handed to Logger::log / log_file_only
  logFileOpen, \* File::create(log_path) has been executed in this run
  run,         \* CopyEngine::run: position, source index, result
  t,           \* tasks: source path -> frame / entry state
  paused,      \* SharedProgress.pause_flag
  pubs,        \* states of the snapshots handed to on_progress, repeats merged
  snap,        \* the last snapshot handed to the observer's on_progress
  er,          \* securely_delete_file at work on one file
  pool,        \* threads of rayon's global pool in this process, 0 before it is built
  mp,          \* one call of matches_pattern: its arguments and its result
  ctr,         \* workers calling the add_* methods of one Statistics
  hub,         \* a SharedProgress and what its callers have handed to and got from it
  rm,          \* one call of secure_remove_dir_all: its frames and what it has done
  ui           \* threads of the GUI process: callers of toggle_pause, copy threads spawned

vars ==
  <<fs, fs0, opts, flaky, cancel, cancelSeen, stats, obsLog, logLog, logFileOpen, run, t,
    paused, pubs, snap, er, pool, mp, ctr, hub, rm, ui>>

\* Statistics::default
ZeroStats ==
  [dirs_created |-> 0, files_copied |-> 0, bytes_copied |-> 0, dirs_skipped |-> 0,
   files_skipped |-> 0, files_failed |-> 0, dirs_removed |-> 0, files_removed |-> 0]

\* CopyOptions::default, with one source, one destination and the CLI's
\* default pattern; retries and wait_time are scaled down (the default of a
\* million retries becomes 1, and the initial states range over
\* 0..MaxRetries), a sleep is counted rather than timed
DefOpts ==
  [sources |-> <<S>>, destination |-> T, patterns |-> <<StarPat>>,
   recursive |-> FALSE, include_empty |-> FALSE, purge |-> FALSE, mirror |-> FALSE,
   move_files |-> FALSE, move_dirs |-> FALSE, threads |-> 1, retries |-> 1,
   list_only |-> FALSE, log_file_names |-> TRUE, empty_files |-> FALSE,
   child_only |-> FALSE, shred_files |-> FALSE, force_overwrite |-> FALSE,
   preserve_root |-> FALSE, log_file |-> FALSE, show_progress |-> TRUE]

NoTask ==
  [pc |-> "todo", dst |-> <<>>, rc |-> 0, att |-> 0, slp |-> 0, wr |-> 0, res |-> "none",
   ents |-> <<>>, pleft |-> <<>>, out |-> "none", intr |-> FALSE, len |-> 0, mt |-> 0,
   call |-> "entry"]

\* ProgressInfo::default
IdleInfo == [state |-> "Idle", files_done |-> 0, bytes_done |-> 0]

\* no secure erase under way
NoErase ==
  [pc |-> "off", path |-> <<>>, fail |-> 0, ops |-> 0, pass |-> 0, from |-> 0, off |-> 0,
   passes |-> <<>>, flushes |-> 0, res |-> "none"]

\* no call of matches_pattern under way
NoMatch == [pc |-> "off", name |-> <<>>, pat |-> <<>>, res |-> FALSE]

\* no worker is counting: left is the number of add_* calls each worker has
\* still to make, mid the bytes of an add_file_copied call between its two
\* increments (-1: none), calls the totals of the calls made
NoCounting == [left |-> <<>>, mid |-> <<>>, calls |-> ZeroStats]

\* SharedProgress::new, with the history of its callers: logged is every
\* line handed to on_log, taken the lines take_logs has returned, last the
\* argument of the latest on_progress (0: ProgressInfo::default), ret the
\* latest call with the value it returned and the state it found, resets
\* the number of reset calls
NoHub ==
  [info |-> 0, log_messages |-> <<>>, logged |-> <<>>, taken |-> <<>>, last |-> 0,
   ret |-> [of |-> "new", val |-> 0, before |-> 0], resets |-> 0]

\* no call of secure_remove_dir_all under way: dir is its argument, stack
\* the frames of the recursion (innermost last), each with the entries its
\* loop has still to visit, fail the paths whose I/O fails, erased and
\* removed the files erased and the directories removed, in order
NoWipe ==
  [pc |-> "off", dir |-> <<>>, stack |-> <<>>, fail |-> {}, erased |-> <<>>, removed |-> <<>>,
   res |-> "none"]

\* no thread of the GUI is inside toggle_pause and no second copy thread
\* has been spawned: pc and current are the position and the local
\* `current` of each caller of toggle_pause
NoUI == [pc |-> <<>>, current |-> <<>>, spawned |-> 0]

\* prev is files_copied of the run before this one
NoRun == [pc |-> "start", idx |-> 1, res |-> "none", why |-> "none", n |-> 1, prev |-> 0]

\* ------------------------------------------------- initial file systems
EmptyFs == [p \in {} |-> DirNode]
Tree(pairs) == [p \in {q[1] : q \in pairs} |-> (CHOOSE q \in pairs : q[1] = p)[2]]

Times == 1..MaxTime
Sizes == 0..MaxSize

\* one source file s/a against every state of the destination file t/a
FileTrees ==
  {Tree({<<S, DirNode>>, <<Child(S, "a"), FileNode(m, z)>>} \cup d) :
     m \in Times, z \in Sizes,
     d \in {{}, {<<T, DirNode>>}}
           \cup {{<<T, DirNode>>, <<Child(T, "a"), FileNode(m2, z2)>>} : m2 \in Times, z2 \in Sizes}}

MoveModes == {<<FALSE, FALSE, FALSE>>, <<TRUE, FALSE, FALSE>>, <<TRUE, FALSE, TRUE>>, <<TRUE, TRUE, FALSE>>}

FamFile ==
  {[fs |-> f,
    opts |-> [DefOpts EXCEPT !.force_overwrite = fo, !.list_only = lo, !.empty_files = ef,
                             !.move_files = mv[1], !.shred_files = mv[3], !.retries = r],
    flaky |-> fl] :
     f \in FileTrees, fo \in BOOLEAN, lo \in BOOLEAN, ef \in BOOLEAN,
     mv \in {m \in MoveModes : ~m[2]}, r \in 0..MaxRetries,
     fl \in {{}, {Child(S, "a")}}}

F11 == FileNode(1, 1)

\* a source directory with files and a subdirectory against a destination
\* with matching and extra entries
SrcTrees ==
  {Tree({<<S, DirNode>>, <<Child(S, "a"), F11>>} \cup b \cup d) :
     b \in {{}, {<<Child(S, "b"), F11>>}},
     d \in {{}, {<<Child(S, "d"), DirNode>>},
            {<<Child(S, "d"), DirNode>>, <<Child(Child(S, "d"), "a"), F11>>}}}

DstTrees ==
  LET b == {<<Child(T, "b"), F11>>}
      x == {<<Child(T, "x"), F11>>}
      d == {<<Child(T, "d"), DirNode>>, <<Child(Child(T, "d"), "x"), F11>>}
  IN {EmptyFs} \cup {Tree({<<T, DirNode>>} \cup e) : e \in {{}, b \cup x, d, b \cup x \cup d}}

PurgeModes == {<<FALSE, FALSE>>, <<TRUE, FALSE>>, <<FALSE, TRUE>>}

FamTree ==
  {[fs |-> sf @@ df,
    opts |-> [DefOpts EXCEPT !.recursive = rec, !.include_empty = ie, !.purge = pm[1], !.mirror = pm[2],
                             !.patterns = pats, !.threads = th],
    flaky |-> fl] :
     sf \in SrcTrees, df \in DstTrees, rec \in BOOLEAN, ie \in BOOLEAN, pm \in PurgeModes,
     pats \in {<<StarPat>>, <<APat>>, <<>>}, th \in {1, 2}, fl \in {{}, {Child(S, "a")}}}

\* list-only and move runs over a tree
FamList ==
  {[fs |-> Tree({<<S, DirNode>>, <<Child(S, "a"), F11>>, <<Child(S, "d"), DirNode>>,
                 <<Child(Child(S, "d"), "a"), F11>>}) @@ df,
    opts |-> [DefOpts EXCEPT !.recursive = TRUE, !.list_only = lo, !.purge = pu, !.threads = th,
                             !.move_files = mv[1], !.move_dirs = mv[2], !.shred_files = mv[3]],
    flaky |-> {}] :
     df \in {EmptyFs, Tree({<<T, DirNode>>, <<Child(T, "x"), F11>>, <<Child(T, "d"), DirNode>>,
                            <<Child(Child(T, "d"), "x"), F11>>})},
     lo \in BOOLEAN, pu \in BOOLEAN, th \in {1, 2}, mv \in MoveModes}

\* a single file as the source
FamSingle ==
  {[fs |-> Tree({<<S, DirNode>>, <<Child(S, "a"), F11>>}) @@ df,
    opts |-> [DefOpts EXCEPT !.sources = <<Child(S, "a")>>, !.destination = dest, !.list_only = lo,
                             !.patterns = pats, !.move_files = mv],
    flaky |-> {}] :
     df \in {EmptyFs, Tree({<<T, DirNode>>})}, dest \in {T, Child(T, "x")},
     lo \in BOOLEAN, pats \in {<<StarPat>>, <<>>, <<BPat>>}, mv \in BOOLEAN}

\* the precondition checks: missing sources, destinations inside a source,
\* several sources, children-only and preserve-root runs
FamPre ==
  {[fs |-> sf @@ uf @@ df,
    opts |-> [DefOpts EXCEPT !.sources = srcs, !.destination = dest, !.recursive = rec,
                             !.log_file = lf, !.list_only = lo, !.child_only = md[1],
                             !.preserve_root = md[2]],
    flaky |-> {}] :
     sf \in {EmptyFs, Tree({<<S, DirNode>>, <<Child(S, "a"), F11>>, <<Child(S, "d"), DirNode>>,
                            <<Child(Child(S, "d"), "a"), F11>>})},
     uf \in {EmptyFs, Tree({<<U, DirNode>>, <<Child(U, "b"), F11>>})},
     df \in {EmptyFs, Tree({<<T, DirNode>>}), Tree({<<S, DirNode>>, <<Child(S, "t"), DirNode>>})},
     srcs \in {<<S>>, <<S, U>>, <<U, S>>}, dest \in {T, S, Child(S, "t")},
     rec \in BOOLEAN, lf \in BOOLEAN, lo \in BOOLEAN,
     md \in {<<FALSE, FALSE>>, <<TRUE, FALSE>>, <<FALSE, TRUE>>}}

\* directories that cannot be enumerated: the source root, a source
\* subdirectory, the destination root, a destination subdirectory
FamRead ==
  {[fs |-> Tree({<<S, DirNode>>, <<Child(S, "a"), F11>>, <<Child(S, "d"), DirNode>>,
                 <<Child(Child(S, "d"), "a"), F11>>, <<T, DirNode>>, <<Child(T, "x"), F11>>,
                 <<Child(T, "d"), DirNode>>, <<Child(Child(T, "d"), "x"), F11>>}),
    opts |-> [DefOpts EXCEPT !.recursive = TRUE, !.purge = pu, !.child_only = co],
    flaky |-> {bad}] :
     pu \in BOOLEAN, co \in BOOLEAN, bad \in {S, Child(S, "d"), T, Child(T, "d")}}

\* runs with the progress display suppressed (show_progress off): no scan
FamQuiet ==
  {[fs |-> Tree({<<S, DirNode>>, <<Child(S, "a"), FileNode(1, z)>>, <<Child(S, "b"), F11>>}),
    opts |-> [DefOpts EXCEPT !.show_progress = FALSE, !.threads = th],
    flaky |-> {}] :
     z \in Sizes, th \in {1, 2}}

Configs == FamFile \cup FamTree \cup FamList \cup FamSingle \cup FamPre \cup FamRead \cup FamQuiet

Init ==
  \E c \in Configs :
    /\ fs = c.fs
    /\ fs0 = c.fs
    /\ opts = c.opts
    /\ flaky = c.flaky
    /\ cancel = FALSE
    /\ cancelSeen = FALSE
    /\ stats = ZeroStats
    /\ obsLog = <<>>
    /\ logLog = <<>>
    /\ logFileOpen = FALSE
    /\ run = NoRun
    /\ t = [p \in {} |-> NoTask]
    /\ paused = FALSE
    /\ pubs = <<>>
    /\ snap = IdleInfo
    /\ er = NoErase
    /\ pool = 0
    /\ mp = NoMatch
    /\ ctr = NoCounting
    /\ hub = NoHub
    /\ rm = NoWipe
    /\ ui = NoUI

\* fs::read_dir(p) returns Err: p is no directory, or cannot be enumerated
read_dir_fails(f, p) == ~is_dir(f, p) \/ p \in flaky

\* ------------------------------------------------------ worlds and tasks
\* The part of the state a step of a worker rewrites, passed through the
\* operators below and written back by Commit.
World ==
  [fs |-> fs, t |-> t, stats |-> stats, obs |-> obsLog, log |-> logLog, seen |-> cancelSeen,
   pubs |-> pubs, snap |-> snap]

Commit(w) ==
  /\ fs' = w.fs
  /\ t' = w.t
  /\ stats' = w.stats
  /\ obsLog' = w.obs
  /\ logLog' = w.log
  /\ cancelSeen' = w.seen
  /\ pubs' = w.pubs
  /\ snap' = w.snap

\* progress.on_log(&msg); logger.log(&msg);
Both(w, line) == [w EXCEPT !.obs = Append(@, line), !.log = Append(@, line)]
\* logger.log(..) / logger.log_file_only(..) alone
LogOnly(w, line) == [w EXCEPT !.log = Append(@, line)]
\* progress.on_log(..) alone
ObsOnly(w, line) == [w EXCEPT !.obs = Append(@, line)]
\* progress.is_cancelled() returned true
Seen(w) == [w EXCEPT !.seen = TRUE]

\* SharedProgress::on_progress: the observer keeps the snapshot it is handed
on_progress(w, state, files_done, bytes_done) ==
  [w EXCEPT !.pubs = IF @ # <<>> /\ @[Len(@)] = state THEN @ ELSE Append(@, state),
            !.snap = [state |-> state, files_done |-> files_done, bytes_done |-> bytes_done]]

\* ProgressWrapper::on_progress: the snapshot of a chunk, with the counters
\* of the run merged in (engine.rs 143-168)
\* the chunk snapshot carries the Scanning state
wrapper_on_progress_scanning(w, current_file_bytes_done) ==
  on_progress(w, "Scanning", w.stats.files_copied, w.stats.bytes_copied + current_file_bytes_done)

wrapper_on_progress(w, current_file_bytes_done) ==
  on_progress(w, "Copying", w.stats.files_copied, w.stats.bytes_copied + current_file_bytes_done)

\* Statistics::add_*
\* an increment is dropped once the counter is above zero
fetch_add_lost(cur, n) == IF cur = 0 THEN n ELSE cur

\* AtomicUsize::fetch_add / AtomicU64::fetch_add (stats.rs 37-62): one
\* indivisible read-modify-write; the value it returns is not used
fetch_add(cur, n) == cur + n

add_dir_created(w) == [w EXCEPT !.stats.dirs_created = fetch_add(@, 1)]
add_file_copied(w, bytes) ==
  [w EXCEPT !.stats.files_copied = fetch_add(@, 1), !.stats.bytes_copied = fetch_add(@, bytes)]
add_dir_skipped(w) == [w EXCEPT !.stats.dirs_skipped = fetch_add(@, 1)]
add_file_skipped(w) == [w EXCEPT !.stats.files_skipped = fetch_add(@, 1)]
add_file_failed(w) == [w EXCEPT !.stats.files_failed = fetch_add(@, 1)]
add_dir_removed(w) == [w EXCEPT !.stats.dirs_removed = fetch_add(@, 1)]
add_file_removed(w) == [w EXCEPT !.stats.files_removed = fetch_add(@, 1)]

SetTask(w, p, rec) == [w EXCEPT !.t = Put(w.t, p, rec)]

\* securely_delete_file: overwrite, unlink, one line to the log file
securely_delete_file(w, p) ==
  LogOnly([w EXCEPT !.fs = Remove(@, p)], "securely_deleted")

\* secure_remove_dir_all
secure_remove_dir_all(w, p) ==
  LogOnly([w EXCEPT !.fs = remove_dir_all(@, p)], "securely_removed_dir")

\* the source directory of a move is removed whatever it still holds
Return_any(w, p, res, out) ==
  LET me == w.t[p]
      moving == me.call = "entry_dir" /\ res = "ok" /\ opts.move_dirs /\ ~opts.list_only
  IN IF moving
       THEN SetTask([w EXCEPT !.fs = Remove(@, p)], p,
                    [me EXCEPT !.pc = "done", !.res = "ok", !.out = out])
     ELSE SetTask(w, p, [me EXCEPT !.pc = "done", !.res = res, !.out = out])

\* The call of task p returns res to its caller; the caller's code after the
\* call runs here.  process_entry propagates an error with `?`, and after a
\* successful copy_directory removes the source directory when move_dirs is
\* set and the directory is empty (copy.rs 127-135).
Return(w, p, res, out) ==
  LET me == w.t[p]
      moving == me.call = "entry_dir" /\ res = "ok" /\ opts.move_dirs /\ ~opts.list_only
  IN IF moving /\ read_dir_fails(w.fs, p)
       THEN SetTask(w, p, [me EXCEPT !.pc = "done", !.res = "err", !.out = "io"])
     ELSE IF moving /\ read_dir(w.fs, p) = {}
       THEN SetTask([w EXCEPT !.fs = Remove(@, p)], p,
                    [me EXCEPT !.pc = "done", !.res = "ok", !.out = out])
     ELSE SetTask(w, p, [me EXCEPT !.pc = "done", !.res = res, !.out = out])

\* wait_if_paused returns at once
Blocked_never == FALSE

\* wait_if_paused keeps sleeping: the pause flag is set and the cancel flag
\* is not (progress.rs 103-107)
Blocked == paused /\ ~cancel

\* ------------------------------------------------------------- copy_file
\* the flag is never seen
is_cancelled_never == FALSE

\* progress.is_cancelled(), as copy_file calls it before the first attempt
\* (copy.rs 234) and at the head of the retry loop (copy.rs 270)
is_cancelled == cancel

\* copy_file up to the retry loop (copy.rs 234-267)
copy_file(w, p, d) ==
  LET w1 == SetTask(w, p, [w.t[p] EXCEPT !.dst = d])
  IN IF is_cancelled THEN Return(Seen(w1), p, "ok", "cancelled")
     ELSE IF ~exists(w1.fs, p) THEN Return(w1, p, "err", "io")
     ELSE
       LET src_meta == w1.fs[p]
           dst_ok == exists(w1.fs, d)
           dst_meta == IF dst_ok THEN w1.fs[d] ELSE DirNode
       IN IF ~should_copy_file(src_meta, dst_ok, dst_meta, opts.force_overwrite)
            THEN Return(add_file_skipped(w1), p, "ok", "skipped")
          ELSE IF opts.list_only
            THEN Return(add_file_copied(Both(w1, "would_copy"), src_meta.size), p, "ok", "listed")
          ELSE
            LET w2 == IF opts.log_file_names THEN Both(w1, "copying") ELSE w1
            IN SetTask(w2, p, [w2.t[p] EXCEPT !.pc = "cf_loop", !.len = src_meta.size,
                                               !.mt = src_meta.mtime, !.rc = 0])

\* one attempt more than configured
retries_exhausted_gt(retry_count, retries) == retry_count > retries

\* `retry_count >= options.retries` (copy.rs 342)
retries_exhausted(retry_count, retries) == retry_count >= retries

\* the Err(e) arm removes the source of a move as the Ok arm does
ErrArm_moves(w0, p, interrupted) ==
  LET w == [w0 EXCEPT !.fs = IF opts.move_files THEN Remove(@, p) ELSE @]
      me == w.t[p]
      retry_count == me.rc + 1
  IN IF retries_exhausted(retry_count, opts.retries)
       THEN Return(add_file_failed(LogOnly(SetTask(w, p, [me EXCEPT !.rc = retry_count, !.intr = interrupted]),
                                           "failed")),
                   p, "err", "failed")
     ELSE SetTask(LogOnly(w, "retry"), p,
                  [me EXCEPT !.rc = retry_count, !.intr = interrupted, !.slp = @ + 1, !.pc = "cf_loop"])

\* the Err(e) arm of the retry loop (copy.rs 340-364)
ErrArm(w, p, interrupted) ==
  LET me == w.t[p]
      retry_count == me.rc + 1
  IN IF retries_exhausted(retry_count, opts.retries)
       THEN Return(add_file_failed(LogOnly(SetTask(w, p, [me EXCEPT !.rc = retry_count, !.intr = interrupted]),
                                           "failed")),
                   p, "err", "failed")
     ELSE SetTask(LogOnly(w, "retry"), p,
                  [me EXCEPT !.rc = retry_count, !.intr = interrupted, !.slp = @ + 1, !.pc = "cf_loop"])

\* the Ok arm of the retry loop (copy.rs 276-339); mtime_set tells whether
\* set_file_mtime worked (its failure is ignored), shred_ok whether the
\* secure erase of the source worked
OkArm(w, p, mtime_set, shred_ok) ==
  LET me == w.t[p]
      d == me.dst
      w1 == IF mtime_set /\ is_file(w.fs, d)
              THEN [w EXCEPT !.fs[d].mtime = me.mt]
              ELSE w
  IN IF opts.move_files /\ opts.shred_files
       THEN IF shred_ok /\ is_file(w1.fs, p)
              THEN Return(add_file_copied(securely_delete_file(w1, p), me.len), p, "ok", "copied")
              ELSE Return(w1, p, "err", "shred_failed")
     ELSE IF opts.move_files
       THEN Return(add_file_copied([w1 EXCEPT !.fs = Remove(@, p)], me.len), p, "ok", "copied")
     ELSE Return(add_file_copied(w1, me.len), p, "ok", "copied")

\* File::create(dst_path) works when the parent is a directory and the path
\* itself is not one
can_create(f, d) == Len(d) <= MaxLen /\ is_dir(f, Parent(d)) /\ ~is_dir(f, d)

\* I/O faults the environment may inject into the transfer of p
Faults(p) == IF p \in flaky THEN BOOLEAN ELSE {FALSE}

\* One pass of the retry loop up to the first chunk: the cancel check of
\* the loop (copy.rs 270-275) and the start of copy_file_content (378-386).
AttemptStart(p) ==
  /\ p \in DOMAIN t
  /\ t[p].pc = "cf_loop"
  /\ \E fault \in Faults(p), mtime_set \in {TRUE} \cup {~f : f \in Faults(p)},
        shred_ok \in {TRUE} \cup {~f : f \in Faults(p)} :
       LET w == World
           me == t[p]
           d == me.dst
           w1 == SetTask(w, p, [me EXCEPT !.att = @ + 1, !.wr = 0])
           created == [w1 EXCEPT !.fs = Put(@, d, FileNode(Now, 0))]
       IN Commit(
            IF is_cancelled THEN Return(Seen(w), p, "ok", "cancelled")
            ELSE IF opts.empty_files
              THEN IF fault \/ ~can_create(w.fs, d)
                     THEN ErrArm(w1, p, FALSE)
                     ELSE OkArm(created, p, mtime_set, shred_ok)
            ELSE IF fault \/ ~is_file(w.fs, p) \/ ~can_create(w.fs, d)
              THEN ErrArm(w1, p, FALSE)
            ELSE SetTask(created, p, [created.t[p] EXCEPT !.pc = "cc_loop"]))
  /\ UNCHANGED <<fs0, opts, flaky, cancel, logFileOpen, run, paused, er, pool, mp, ctr, hub, rm, ui>>

\* One pass of the chunk loop of copy_file_content (copy.rs 399-424),
\* followed, when the content call returns, by the arm of the retry loop
\* that handles its result.
Chunk(p) ==
  /\ p \in DOMAIN t
  /\ t[p].pc = "cc_loop"
  /\ ~Blocked
  /\ \E fault \in Faults(p), mtime_set \in {TRUE} \cup {~f : f \in Faults(p)},
        shred_ok \in {TRUE} \cup {~f : f \in Faults(p)} :
       LET w == World
           me == t[p]
           d == me.dst
           total == IF is_file(fs, p) THEN fs[p].size ELSE me.len
       IN Commit(
            IF cancel THEN ErrArm(Seen(w), p, TRUE)
            ELSE IF fault \/ ~is_file(fs, d) THEN ErrArm(w, p, FALSE)
            ELSE IF me.wr >= total THEN OkArm(w, p, mtime_set, shred_ok)
            ELSE wrapper_on_progress(
                   SetTask([w EXCEPT !.fs[d].size = me.wr + 1], p, [me EXCEPT !.wr = @ + 1]),
                   me.wr + 1))
  /\ UNCHANGED <<fs0, opts, flaky, cancel, logFileOpen, run, paused, er, pool, mp, ctr, hub, rm, ui>>

\* -------------------------------------------------------- copy_directory
\* the order in which read_dir hands out the entries; it only matters when
\* the batch is sequential
EntryOrders(names) ==
  IF opts.threads > 1 THEN {CHOOSE o \in Orders(names) : TRUE} ELSE Orders(names)

\* what read_dir(src_path) will see once copy_directory has made sure the
\* destination exists
EntriesSeen(f, p, d) ==
  IF ~exists(f, d) /\ ~opts.list_only /\ create_dir_all_ok(f, d)
    THEN read_dir(create_dir_all(f, d), p)
    ELSE read_dir(f, p)

\* copy_directory up to the batch of its entries (copy.rs 22-88); p is
\* already a task whose call field names the caller
copy_directory(w, p, d, ord) ==
  LET me == [w.t[p] EXCEPT !.dst = d]
      w0 == SetTask(w, p, me)
  IN IF cancel THEN Return(Seen(w0), p, "ok", "cancelled")
     ELSE IF is_file(w.fs, p)
       THEN LET actual_dst == IF is_dir(w.fs, d) THEN Child(d, Base(p)) ELSE d
                parent == Parent(actual_dst)
            IN IF parent # <<>> /\ ~exists(w.fs, parent)
                 THEN IF create_dir_all_ok(w.fs, parent)
                        THEN copy_file([w0 EXCEPT !.fs = create_dir_all(@, parent)], p, actual_dst)
                        ELSE Return(w0, p, "err", "io")
                 ELSE copy_file(w0, p, actual_dst)
     ELSE
       LET missing == ~exists(w.fs, d)
           w1 == IF missing /\ ~opts.list_only
                   THEN add_dir_created([Both(w0, "mkdir") EXCEPT !.fs = create_dir_all(@, d)])
                 ELSE IF missing
                   THEN add_dir_created(Both(w0, "would_mkdir"))
                 ELSE w0
           kids == [q \in {Child(p, ord[i]) : i \in DOMAIN ord} |-> [NoTask EXCEPT !.dst = Child(d, Base(q))]]
       IN IF missing /\ ~opts.list_only /\ ~create_dir_all_ok(w.fs, d)
            THEN Return(Both(w0, "mkdir"), p, "err", "io")
          ELSE IF read_dir_fails(w1.fs, p)
            THEN Return(w1, p, "err", "io")
          ELSE [w1 EXCEPT !.t = [q \in DOMAIN w1.t \cup DOMAIN kids |->
                                   IF q = p THEN [me EXCEPT !.pc = "cd_batch", !.ents = ord]
                                   ELSE IF q \in DOMAIN kids THEN kids[q] ELSE w1.t[q]]]

Kids(p) == {Child(p, t[p].ents[i]) : i \in DOMAIN t[p].ents}
Running(q) == t[q].pc \notin {"todo", "done"}
\* tasks that occupy a worker of the pool: a frame waiting for its batch
\* does not
Busy == {q \in DOMAIN t : t[q].pc \in {"cf_loop", "cc_loop", "cd_purge"} /\ t[q].call # "top"}

\* the batch keeps going after an error
short_circuit_never(results) == FALSE

\* try_for_each stops handing out entries once a closure has returned Err
short_circuit(results) == "err" \in results

\* try_for_each over the batch of frame f may hand entry p to the closure
MayStart(f, p) ==
  /\ f \in DOMAIN t
  /\ t[f].pc \in {"cd_batch", "co_batch"}
  /\ p \in Kids(f)
  /\ t[p].pc = "todo"
  /\ ~short_circuit({t[q].res : q \in Kids(f)})
  /\ IF opts.threads > 1
       THEN Cardinality(Busy) < pool
       ELSE \A i, j \in DOMAIN t[f].ents :
              (t[f].ents[j] = Base(p) /\ i < j) => t[Child(f, t[f].ents[i])].pc = "done"

\* the closure applied to entry p reaches a wait_if_paused: copy_file for a
\* matching file, copy_directory for a directory it descends into
WaitsInEntry(p) ==
  IF t[Parent(p)].pc = "co_batch" THEN is_dir(fs, p)
  ELSE \/ is_file(fs, p) /\ MatchesAny(opts, Base(p))
       \/ /\ is_dir(fs, p) /\ opts.recursive
          /\ ~(~opts.include_empty /\ (read_dir_fails(fs, p) \/ read_dir(fs, p) = {}))

\* process_entry (copy.rs 91-138) and, for the batch of the engine's
\* children-only mode, process_child (engine.rs 199-223)
StartEntry(p) ==
  /\ Len(p) > 1
  /\ MayStart(Parent(p), p)
  /\ Blocked => ~WaitsInEntry(p)
  /\ \E ord \in EntryOrders(EntriesSeen(fs, p, t[p].dst)) :
       LET w == World
           d == t[p].dst
           asDir(c) == SetTask(w, p, [t[p] EXCEPT !.call = c])
       IN Commit(
            IF t[Parent(p)].pc = "co_batch"
              THEN IF is_dir(fs, p)
                     THEN copy_directory(Both(asDir("child"), "child"), p, d, ord)
                     ELSE Return(w, p, "ok", "ignored")
            ELSE IF cancel THEN Return(Seen(w), p, "ok", "cancelled")
            ELSE IF is_file(fs, p)
              THEN IF MatchesAny(opts, Base(p))
                     THEN copy_file(w, p, d)
                     ELSE Return(w, p, "ok", "no_match")
            ELSE IF is_dir(fs, p) /\ opts.recursive
              THEN IF ~opts.include_empty /\ read_dir_fails(fs, p)
                     THEN Return(w, p, "err", "io")
                   ELSE IF ~opts.include_empty /\ read_dir(fs, p) = {}
                     THEN Return(add_dir_skipped(IF opts.log_file_names THEN Both(w, "skip_dir") ELSE w),
                                 p, "ok", "dir_skipped")
                     ELSE copy_directory(asDir("entry_dir"), p, d, ord)
            ELSE Return(w, p, "ok", "ignored"))
  /\ UNCHANGED <<fs0, opts, flaky, cancel, logFileOpen, run, paused, er, pool, mp, ctr, hub, rm, ui>>

\* the batch counts as over as soon as one entry is done
BatchOver_first(f) == \E q \in Kids(f) : t[q].pc = "done"

\* try_for_each has returned: every entry is done, or one failed and none
\* is still running
BatchOver(f) ==
  \/ \A q \in Kids(f) : t[q].pc = "done"
  \/ /\ \E q \in Kids(f) : t[q].res = "err"
     /\ \A q \in Kids(f) : ~Running(q)

\* After the batch (copy.rs 140-149): propagate the first error, or read
\* the destination for the purge step, which is skipped when that read
\* fails (`if let Ok(dst_entries)`); the engine's children-only batch
\* (engine.rs 225-229) only propagates.
BatchDone(f) ==
  /\ f \in DOMAIN t
  /\ t[f].pc \in {"cd_batch", "co_batch"}
  /\ BatchOver(f)
  /\ opts.threads > 1 /\ t[f].call # "top" => Cardinality(Busy) < pool
  /\ LET w == World
         d == t[f].dst
         purging == (opts.purge \/ opts.mirror) /\ ~opts.list_only
     IN Commit(
          IF \E q \in Kids(f) : t[q].res = "err" THEN Return(w, f, "err", "child_failed")
          ELSE IF t[f].pc = "co_batch" THEN Return(w, f, "ok", "children")
          ELSE IF purging /\ read_dir_fails(fs, d) THEN Return(w, f, "ok", "purge_unread")
          ELSE IF purging /\ read_dir(fs, d) # {}
            THEN SetTask(w, f, [t[f] EXCEPT !.pc = "cd_purge", !.pleft = ListDir(fs, d)])
          ELSE Return(w, f, "ok", "synced"))
  /\ UNCHANGED <<fs0, opts, flaky, cancel, logFileOpen, run, paused, er, pool, mp, ctr, hub, rm, ui>>

\* everything in the destination is taken for an extra entry
in_source_never(src_names, n) == FALSE

\* nothing in the destination is ever taken for an extra entry
in_source_always(src_names, n) == TRUE

\* `src_names.contains(&file_name)` (copy.rs 159)
in_source(src_names, n) == n \in src_names

\* process_purge on the next destination entry (copy.rs 151-189)
PurgeStep(f) ==
  /\ f \in DOMAIN t
  /\ t[f].pc = "cd_purge"
  /\ LET w == World
         n == Head(t[f].pleft)
         path == Child(t[f].dst, n)
         src_names == {t[f].ents[i] : i \in DOMAIN t[f].ents}
         w1 == IF cancel THEN Seen(w)
               ELSE IF in_source(src_names, n) THEN w
               ELSE IF is_file(fs, path)
                 THEN IF opts.shred_files
                        THEN add_file_removed(securely_delete_file(Both(w, "secure_rm"), path))
                        ELSE add_file_removed([Both(w, "rm") EXCEPT !.fs = Remove(@, path)])
               ELSE IF is_dir(fs, path)
                 THEN IF opts.shred_files
                        THEN add_dir_removed(secure_remove_dir_all(Both(w, "secure_rmdir"), path))
                        ELSE add_dir_removed([Both(w, "rmdir") EXCEPT !.fs = remove_dir_all(@, path)])
               ELSE w
         left == Tail(t[f].pleft)
         w2 == SetTask(w1, f, [t[f] EXCEPT !.pleft = left])
     IN Commit(IF left = <<>> THEN Return(w2, f, "ok", "synced") ELSE w2)
  /\ UNCHANGED <<fs0, opts, flaky, cancel, logFileOpen, run, paused, er, pool, mp, ctr, hub, rm, ui>>

\* ------------------------------------------------------- CopyEngine::run
\* `if self.options.threads > 1 { let _ = ThreadPoolBuilder::new()
\* .num_threads(threads).build_global(); }` (engine.rs 58-62): the pool
\* is built once per process, a later call returns an error that is dropped
build_global(size, threads) == IF threads > 1 /\ size = 0 THEN threads ELSE size

Sources == {opts.sources[i] : i \in DOMAIN opts.sources}

\* every child is synchronized into the destination root itself
child_dest_flat(dest, child_path) == dest

\* `let child_dest = dest_path.join(&child_name);` (engine.rs 207)
child_dest(dest, child_path) == Child(dest, Base(child_path))

\* the first source the precondition loop rejects (engine.rs 34-55), or 0
FirstRejected(f) ==
  LET bad == {i \in DOMAIN opts.sources :
                \/ ~exists(f, opts.sources[i])
                \/ exists(f, opts.destination) /\ IsPrefix(opts.sources[i], opts.destination)}
  IN IF bad = {} THEN 0 ELSE CHOOSE i \in bad : \A j \in bad : i <= j

\* run() from its entry to the start of the copy (engine.rs 27-131):
\* precondition checks, logger, start message, destination directory
RunBegin ==
  /\ run.pc = "start"
  /\ LET w == World
         dest == opts.destination
         i == FirstRejected(fs)
         started == Both(w, "start")
         w1 == IF opts.show_progress THEN on_progress(started, "Scanning", 0, 0) ELSE started
     IN IF i # 0
          THEN /\ Commit(ObsOnly(w, IF ~exists(fs, opts.sources[i]) THEN "error_no_source"
                                                                     ELSE "error_nested"))
               /\ run' = [run EXCEPT !.pc = "done", !.res = "err", !.why = "precondition"]
               /\ UNCHANGED logFileOpen
        ELSE /\ logFileOpen' = opts.log_file
             /\ IF exists(fs, dest)
                  THEN /\ Commit(on_progress(w1, "Copying", 0, 0))
                       /\ run' = [run EXCEPT !.pc = "copy"]
                ELSE IF opts.list_only
                  THEN /\ Commit(on_progress(Both(w1, "would_mkdest"), "Copying", 0, 0))
                       /\ run' = [run EXCEPT !.pc = "copy"]
                ELSE IF create_dir_all_ok(fs, dest)
                  THEN /\ Commit(on_progress([Both(w1, "mkdest") EXCEPT !.fs = create_dir_all(@, dest)],
                                              "Copying", 0, 0))
                       /\ run' = [run EXCEPT !.pc = "copy"]
                ELSE /\ Commit(Both(w1, "mkdest"))
                     /\ run' = [run EXCEPT !.pc = "done", !.res = "err", !.why = "io"]
  /\ pool' = IF FirstRejected(fs) # 0 THEN pool ELSE build_global(pool, opts.threads)
  /\ UNCHANGED <<fs0, opts, flaky, cancel, paused, er, mp, ctr, hub, rm, ui>>

\* the loop over the sources (engine.rs 189-251) starts the next source
\* once the previous one has returned Ok
StartTop ==
  /\ run.pc = "copy"
  /\ run.idx <= Len(opts.sources)
  /\ Blocked => opts.child_only
  /\ run.idx > 1 => /\ t[opts.sources[run.idx - 1]].pc = "done"
                    /\ t[opts.sources[run.idx - 1]].res = "ok"
  /\ LET src == opts.sources[run.idx]
         dest == opts.destination
         actual_dest == IF opts.preserve_root /\ is_dir(fs, src) THEN Child(dest, Base(src)) ELSE dest
         w == SetTask(World, src, [NoTask EXCEPT !.call = "top"])
     IN IF opts.child_only
          THEN \E ord \in EntryOrders(read_dir(fs, src)) :
                 LET kids == [q \in {Child(src, ord[i]) : i \in DOMAIN ord} |->
                                [NoTask EXCEPT !.dst = child_dest(dest, q)]]
                 IN Commit(
                      IF is_dir(fs, src) /\ read_dir_fails(fs, src)
                        THEN Return(w, src, "ok", "unread")
                      ELSE IF is_dir(fs, src)
                        THEN [w EXCEPT !.t = [q \in DOMAIN w.t \cup DOMAIN kids |->
                                 IF q = src THEN [w.t[src] EXCEPT !.pc = "co_batch", !.ents = ord, !.dst = dest]
                                 ELSE IF q \in DOMAIN kids THEN kids[q] ELSE w.t[q]]]
                        ELSE Return(w, src, "ok", "ignored"))
          ELSE \E ord \in EntryOrders(EntriesSeen(fs, src, actual_dest)) :
                 Commit(copy_directory(w, src, actual_dest, ord))
  /\ run' = [run EXCEPT !.idx = @ + 1]
  /\ UNCHANGED <<fs0, opts, flaky, cancel, logFileOpen, paused, er, pool, mp, ctr, hub, rm, ui>>

\* `?` on the result of a source: an error ends run() at once
RunFail ==
  /\ run.pc = "copy"
  /\ run.idx > 1
  /\ t[opts.sources[run.idx - 1]].pc = "done"
  /\ t[opts.sources[run.idx - 1]].res = "err"
  /\ run' = [run EXCEPT !.pc = "done", !.res = "err", !.why = "copy"]
  /\ UNCHANGED <<fs, fs0, opts, flaky, cancel, cancelSeen, stats, obsLog, logLog, logFileOpen, t,
               paused, pubs, snap, er, pool, mp, ctr, hub, rm, ui>>

\* after the last source: summary, Completed, Ok(stats) (engine.rs 253-294);
\* the Completed snapshot is the `info` built at engine.rs 125-130 with its
\* state changed, handed to the observer itself and not to the wrapper
RunFinish ==
  /\ run.pc = "copy"
  /\ run.idx > Len(opts.sources)
  /\ t[opts.sources[run.idx - 1]].pc = "done"
  /\ t[opts.sources[run.idx - 1]].res = "ok"
  /\ Commit(on_progress(Both(World, "summary"), "Completed", 0, 0))
  /\ run' = [run EXCEPT !.pc = "done", !.res = "ok"]
  /\ UNCHANGED <<fs0, opts, flaky, cancel, logFileOpen, paused, er, pool, mp, ctr, hub, rm, ui>>

\* SharedProgress::cancel / the CLI's cancel handle, at any moment of the
\* first run; a run started again is left to complete
Cancel ==
  /\ run.pc # "done"
  /\ run.n = 1
  /\ ~cancel
  /\ cancel' = TRUE
  /\ UNCHANGED <<fs, fs0, opts, flaky, cancelSeen, stats, obsLog, logLog, logFileOpen, run, t,
               paused, pubs, snap, er, pool, mp, ctr, hub, rm, ui>>

\* SharedProgress::toggle_pause, while the copy is under way
TogglePause ==
  /\ run.pc = "copy"
  /\ run.n = 1
  /\ paused' = ~paused
  /\ UNCHANGED <<fs, fs0, opts, flaky, cancel, cancelSeen, stats, obsLog, logLog, logFileOpen, run, t,
               pubs, snap, er, pool, mp, ctr, hub, rm, ui>>

\* The program is started again on the same trees with the same options
\* after a run that completed: a new engine, observer and logger.
Rerun ==
  /\ run.pc = "done"
  /\ run.res = "ok"
  /\ ~cancel
  /\ run.n < MaxRuns
  /\ run' = [NoRun EXCEPT !.n = run.n + 1, !.prev = stats.files_copied]
  /\ fs0' = fs
  /\ stats' = ZeroStats
  /\ t' = [p \in {} |-> NoTask]
  /\ obsLog' = <<>>
  /\ logLog' = <<>>
  /\ logFileOpen' = FALSE
  /\ cancelSeen' = FALSE
  /\ paused' = FALSE
  /\ pubs' = <<>>
  /\ snap' = IdleInfo
  /\ pool' = 0
  /\ UNCHANGED <<fs, opts, flaky, cancel, er, mp, ctr, hub, rm, ui>>

\* every path a task can have
TaskPaths == DOMAIN t

Next ==
  \/ RunBegin
  \/ StartTop
  \/ \E p \in TaskPaths : StartEntry(p)
  \/ \E p \in TaskPaths : AttemptStart(p)
  \/ \E p \in TaskPaths : Chunk(p)
  \/ \E p \in TaskPaths : BatchDone(p)
  \/ \E p \in TaskPaths : PurgeStep(p)
  \/ RunFail
  \/ RunFinish
  \/ Cancel
  \/ Rerun

Spec == Init /\ [][Next]_vars

\* ------------------------------------------------ a run behind the GUI
\* The observer is a SharedProgress: the user can pause and resume the copy.
\* A recursive run over a small tree, with and without purge, with one and
\* two threads, with and without a failing file.
FamUI ==
  {[fs |-> Tree({<<S, DirNode>>, <<Child(S, "a"), F11>>, <<Child(S, "d"), DirNode>>,
                 <<Child(Child(S, "d"), "a"), F11>>, <<T, DirNode>>, <<Child(T, "x"), F11>>}),
    opts |-> [DefOpts EXCEPT !.recursive = TRUE, !.purge = pu, !.threads = th],
    flaky |-> fl] :
     pu \in BOOLEAN, th \in {1, 2}, fl \in {{}, {Child(S, "a")}}}

InitUI ==
  \E c \in FamUI :
    /\ fs = c.fs
    /\ fs0 = c.fs
    /\ opts = c.opts
    /\ flaky = c.flaky
    /\ cancel = FALSE
    /\ cancelSeen = FALSE
    /\ stats = ZeroStats
    /\ obsLog = <<>>
    /\ logLog = <<>>
    /\ logFileOpen = FALSE
    /\ run = NoRun
    /\ t = [p \in {} |-> NoTask]
    /\ paused = FALSE
    /\ pubs = <<>>
    /\ snap = IdleInfo
    /\ er = NoErase
    /\ pool = 0
    /\ mp = NoMatch
    /\ ctr = NoCounting
    /\ hub = NoHub
    /\ rm = NoWipe
    /\ ui = NoUI

NextUI == Next \/ TogglePause

SpecUI == InitUI /\ [][NextUI]_vars

\* the steps of the engine and of its workers, as against those of the user
Work ==
  \/ RunBegin
  \/ StartTop
  \/ \E p \in TaskPaths : StartEntry(p)
  \/ \E p \in TaskPaths : AttemptStart(p)
  \/ \E p \in TaskPaths : Chunk(p)
  \/ \E p \in TaskPaths : BatchDone(p)
  \/ \E p \in TaskPaths : PurgeStep(p)
  \/ RunFail
  \/ RunFinish

\* the threads of the engine are scheduled: the sleep of wait_if_paused
\* ends, and a thread that can take a step is not held back for ever
SpecUIFair == SpecUI /\ WF_vars(Work)

\* ----------------------------------------------------- securely_delete_file
\* One call of securely_delete_file (utils.rs 83-130) on the file er.path,
\* step by step: every write_all, every flush and the final remove_file is
\* a step, and the er.fail-th of these I/O operations fails (0: none does).

\* a pattern list that lost its last fixed value
patterns_short == <<"FF", "00", "AA", "55", "F0">>

\* `let patterns = [0xFF, 0x00, 0xAA, 0x55, 0xF0, 0x0F]` (utils.rs 92)
patterns == <<"FF", "00", "AA", "55", "F0", "0F">>

\* the byte the buffer holds in pass i: a fixed value, then random bytes
PassByte(i) == IF i <= Len(patterns) THEN patterns[i] ELSE "random"

\* `std::cmp::min(remaining, BUFFER_SIZE as u64)`
to_write(remaining) == IF remaining < EraseBuf THEN remaining ELSE EraseBuf

EraseFails == er.fail # 0 /\ er.ops + 1 = er.fail

\* `?` on a failed operation: the call returns the error at once
EraseAbort == er' = [er EXCEPT !.ops = @ + 1, !.pc = "done", !.res = "err"]

\* file.write_all(&buffer[..to_write]) in the loop of a pass
EraseWrite ==
  /\ er.pc = "pass"
  /\ er.off < fs[er.path].size
  /\ IF EraseFails THEN EraseAbort
     ELSE er' = [er EXCEPT !.ops = @ + 1, !.off = @ + to_write(fs[er.path].size - er.off)]
  /\ UNCHANGED <<fs, fs0, opts, flaky, cancel, cancelSeen, stats, obsLog, logLog, logFileOpen, run, t,
               paused, pubs, snap, pool, mp, ctr, hub, rm, ui>>

\* file.flush() at the end of a pass, then the seek to 0 of the next pass
\* or, after the random pass, on to the unlink
EraseFlush ==
  /\ er.pc = "pass"
  /\ er.off >= fs[er.path].size
  /\ IF EraseFails THEN EraseAbort
     ELSE er' = [er EXCEPT
                   !.ops = @ + 1,
                   !.flushes = @ + 1,
                   !.passes = Append(@, [val |-> PassByte(er.pass), from |-> er.from, len |-> er.off - er.from]),
                   !.pass = @ + 1,
                   !.from = 0,
                   !.off = 0,
                   !.pc = IF er.pass > Len(patterns) THEN "unlink" ELSE "pass"]
  /\ UNCHANGED <<fs, fs0, opts, flaky, cancel, cancelSeen, stats, obsLog, logLog, logFileOpen, run, t,
               paused, pubs, snap, pool, mp, ctr, hub, rm, ui>>

\* drop(file); fs::remove_file(path)?; logger.log_file_only(..); Ok(())
EraseUnlink ==
  /\ er.pc = "unlink"
  /\ IF EraseFails
       THEN EraseAbort /\ UNCHANGED <<fs, logLog>>
       ELSE /\ er' = [er EXCEPT !.ops = @ + 1, !.pc = "done", !.res = "ok"]
            /\ fs' = Remove(fs, er.path)
            /\ logLog' = Append(logLog, "securely_deleted")
  /\ UNCHANGED <<fs0, opts, flaky, cancel, cancelSeen, stats, obsLog, logFileOpen, run, t,
               paused, pubs, snap, pool, mp, ctr, hub, rm, ui>>

\* the file t/x of every length, and every operation that can fail
InitErase ==
  \E n \in 0..MaxEraseLen, k \in 0..((Len(patterns) + 1) * (MaxEraseLen + 1) + 1) :
    /\ fs = Tree({<<T, DirNode>>, <<Child(T, "x"), FileNode(1, n)>>})
    /\ fs0 = fs
    /\ opts = [DefOpts EXCEPT !.shred_files = TRUE]
    /\ flaky = {}
    /\ cancel = FALSE
    /\ cancelSeen = FALSE
    /\ stats = ZeroStats
    /\ obsLog = <<>>
    /\ logLog = <<>>
    /\ logFileOpen = FALSE
    /\ run = NoRun
    /\ t = [p \in {} |-> NoTask]
    /\ paused = FALSE
    /\ pubs = <<>>
    /\ snap = IdleInfo
    /\ er = [NoErase EXCEPT !.pc = "pass", !.path = Child(T, "x"), !.fail = k, !.pass = 1]
    /\ pool = 0
    /\ mp = NoMatch
    /\ ctr = NoCounting
    /\ hub = NoHub
    /\ rm = NoWipe
    /\ ui = NoUI

NextErase == EraseWrite \/ EraseFlush \/ EraseUnlink

SpecErase == InitErase /\ [][NextErase]_vars

\* ------------------------------------------------- matches_pattern alone
\* One call of matches_pattern (utils.rs 53-81) on every name and every
\* pattern up to a length, over an alphabet with a dot and both wildcards.
NameAlphabet == {"a", "b", "."}
PatAlphabet == NameAlphabet \cup {"*", "?"}
Words(A, n) == UNION {[1..k -> A] : k \in 0..n}

\* no run, no erase: the state of everything but the component under study
IdleRun ==
  /\ fs = EmptyFs
  /\ fs0 = EmptyFs
  /\ opts = DefOpts
  /\ flaky = {}
  /\ cancel = FALSE
  /\ cancelSeen = FALSE
  /\ stats = ZeroStats
  /\ obsLog = <<>>
  /\ logLog = <<>>
  /\ logFileOpen = FALSE
  /\ run = NoRun
  /\ t = [p \in {} |-> NoTask]
  /\ paused = FALSE
  /\ pubs = <<>>
  /\ snap = IdleInfo
  /\ er = NoErase
  /\ pool = 0

InitMatch ==
  /\ IdleRun
  /\ \E name \in Words(NameAlphabet, MaxNameLen), pat \in Words(PatAlphabet, MaxPatLen) :
       mp = [NoMatch EXCEPT !.pc = "call", !.name = name, !.pat = pat]
  /\ ctr = NoCounting
  /\ hub = NoHub
  /\ rm = NoWipe
  /\ ui = NoUI

Match ==
  /\ mp.pc = "call"
  /\ mp' = [mp EXCEPT !.pc = "done", !.res = matches_pattern(mp.name, mp.pat)]
  /\ UNCHANGED <<fs, fs0, opts, flaky, cancel, cancelSeen, stats, obsLog, logLog, logFileOpen, run, t,
               paused, pubs, snap, er, pool, ctr, hub, rm, ui>>

NextMatch == Match

SpecMatch == InitMatch /\ [][NextMatch]_vars

\* ------------------------------------------- several runs in one process
\* The GUI process starts one copy after another (commands.rs 10-35), each
\* with a new engine and the options of its form; a library caller may call
\* run() again on the engine it holds. The pool of the process stays.
MaxThreads == 3     \* largest thread count a run is configured with

FamProc ==
  {[fs |-> Tree({<<S, DirNode>>, <<Child(S, "a"), F11>>, <<Child(S, "b"), F11>>, <<Child(S, "x"), F11>>,
                 <<T, DirNode>>, <<Child(T, "u"), F11>>}),
    opts |-> [DefOpts EXCEPT !.purge = TRUE, !.force_overwrite = TRUE, !.threads = th],
    flaky |-> fl] :
     th \in 1..MaxThreads, fl \in {{}, {Child(S, "a")}}}

InitProc ==
  \E c \in FamProc :
    /\ fs = c.fs
    /\ fs0 = c.fs
    /\ opts = c.opts
    /\ flaky = c.flaky
    /\ cancel = FALSE
    /\ cancelSeen = FALSE
    /\ stats = ZeroStats
    /\ obsLog = <<>>
    /\ logLog = <<>>
    /\ logFileOpen = FALSE
    /\ run = NoRun
    /\ t = [p \in {} |-> NoTask]
    /\ paused = FALSE
    /\ pubs = <<>>
    /\ snap = IdleInfo
    /\ er = NoErase
    /\ pool = 0
    /\ mp = NoMatch
    /\ ctr = NoCounting
    /\ hub = NoHub
    /\ rm = NoWipe
    /\ ui = NoUI

\* start_copy (commands.rs 10-35): progress.reset(), then a new engine with
\* the options handed in, here a thread count of the caller's choice
StartCopy ==
  /\ run.pc = "done"
  /\ run.n < MaxRuns
  /\ \E th \in 1..MaxThreads : opts' = [opts EXCEPT !.threads = th]
  /\ run' = [NoRun EXCEPT !.n = run.n + 1, !.prev = stats.files_copied]
  /\ fs0' = fs
  /\ stats' = ZeroStats
  /\ t' = [p \in {} |-> NoTask]
  /\ obsLog' = <<>>
  /\ logLog' = <<>>
  /\ logFileOpen' = FALSE
  /\ cancel' = FALSE
  /\ cancelSeen' = FALSE
  /\ paused' = FALSE
  /\ pubs' = <<>>
  /\ snap' = IdleInfo
  /\ UNCHANGED <<fs, flaky, er, pool, mp, ctr, hub, rm, ui>>

\* run() called once more on the same CopyEngine (engine.rs 27): the
\* options, the observer and the Statistics of the engine are the same
\* objects, the logger and the tasks are new
RunAgain ==
  /\ run.pc = "done"
  /\ ~cancel
  /\ run.n < MaxRuns
  /\ run' = [NoRun EXCEPT !.n = run.n + 1, !.prev = stats.files_copied]
  /\ fs0' = fs
  /\ t' = [p \in {} |-> NoTask]
  /\ logLog' = <<>>
  /\ logFileOpen' = FALSE
  /\ UNCHANGED <<fs, opts, flaky, cancel, cancelSeen, stats, obsLog, paused, pubs, snap, er, pool, mp,
               ctr, hub, rm, ui>>

NextProc == Next \/ StartCopy \/ RunAgain

SpecProc == InitProc /\ [][NextProc]_vars

\* ------------------------------------------------------ Statistics alone
\* MaxWorkers threads share one Statistics; each makes up to MaxCalls calls
\* of the add_* methods (stats.rs 36-63) in any order and at any pace. Every
\* fetch_add is a step of its own, so the two increments of add_file_copied
\* can be separated by the steps of other threads.
Workers == 1..MaxWorkers

InitStats ==
  /\ IdleRun
  /\ mp = NoMatch
  /\ ctr = [left |-> [w \in Workers |-> MaxCalls], mid |-> [w \in Workers |-> -1], calls |-> ZeroStats]
  /\ hub = NoHub
  /\ rm = NoWipe
  /\ ui = NoUI

\* worker w calls one of the add_* methods with a single increment
AddOne(w) ==
  /\ ctr.left[w] > 0
  /\ ctr.mid[w] = -1
  /\ \E k \in {"dirs_created", "dirs_skipped", "files_skipped", "files_failed", "dirs_removed",
               "files_removed"} :
       /\ stats' = (CASE k = "dirs_created" -> add_dir_created(World)
                      [] k = "dirs_skipped" -> add_dir_skipped(World)
                      [] k = "files_skipped" -> add_file_skipped(World)
                      [] k = "files_failed" -> add_file_failed(World)
                      [] k = "dirs_removed" -> add_dir_removed(World)
                      [] k = "files_removed" -> add_file_removed(World)).stats
       /\ ctr' = [ctr EXCEPT !.left[w] = @ - 1, !.calls[k] = @ + 1]
  /\ UNCHANGED <<fs, fs0, opts, flaky, cancel, cancelSeen, obsLog, logLog, logFileOpen, run, t,
               paused, pubs, snap, er, pool, mp, hub, rm, ui>>

\* worker w enters add_file_copied(bytes): the first fetch_add (stats.rs 41)
AddFile(w) ==
  /\ ctr.left[w] > 0
  /\ ctr.mid[w] = -1
  /\ \E bytes \in 1..(MaxSize + 1) :
       ctr' = [ctr EXCEPT !.left[w] = @ - 1, !.mid[w] = bytes,
                          !.calls.files_copied = @ + 1, !.calls.bytes_copied = @ + bytes]
  /\ stats' = [stats EXCEPT !.files_copied = fetch_add(@, 1)]
  /\ UNCHANGED <<fs, fs0, opts, flaky, cancel, cancelSeen, obsLog, logLog, logFileOpen, run, t,
               paused, pubs, snap, er, pool, mp, hub, rm, ui>>

\* the second fetch_add of add_file_copied (stats.rs 42)
AddBytes(w) ==
  /\ ctr.mid[w] # -1
  /\ stats' = [stats EXCEPT !.bytes_copied = fetch_add(@, ctr.mid[w])]
  /\ ctr' = [ctr EXCEPT !.mid[w] = -1]
  /\ UNCHANGED <<fs, fs0, opts, flaky, cancel, cancelSeen, obsLog, logLog, logFileOpen, run, t,
               paused, pubs, snap, er, pool, mp, hub, rm, ui>>

NextStats == \E w \in Workers : AddOne(w) \/ AddFile(w) \/ AddBytes(w)

SpecStats == InitStats /\ [][NextStats]_vars

\* -------------------------------------------------- SharedProgress alone
\* One SharedProgress between a copy thread that calls on_progress and
\* on_log and a GUI thread that calls get_info, take_logs, peek_logs and
\* reset (progress.rs 196-259). Each method holds the mutex of the field it
\* touches for its whole body, so each call is one step. Snapshots are
\* numbered 1..MaxSnaps, lines are numbered in the order they are logged.
InitHub ==
  /\ IdleRun
  /\ mp = NoMatch
  /\ ctr = NoCounting
  /\ hub = NoHub
  /\ rm = NoWipe
  /\ ui = NoUI

Did(name) == [of |-> name, val |-> 0, before |-> 0]
Kept(h) == [info |-> h.info, log_messages |-> h.log_messages]

\* the buffer is returned and left as it is
take_logs_keep(logs) == [ret |-> logs, left |-> logs]

\* `std::mem::take(&mut *logs)` (progress.rs 226-229): the buffer is
\* returned and an empty one is left in its place
take_logs(logs) == [ret |-> logs, left |-> <<>>]

HubRest ==
  UNCHANGED <<fs, fs0, opts, flaky, cancel, cancelSeen, stats, obsLog, logLog, logFileOpen, run, t,
              paused, pubs, snap, er, pool, mp, ctr, rm, ui>>

\* on_progress (progress.rs 253-255)
HubOnProgress ==
  /\ \E x \in 1..MaxSnaps : hub' = [hub EXCEPT !.info = x, !.last = x, !.ret = Did("on_progress")]
  /\ HubRest

\* on_log (progress.rs 257-259)
HubOnLog ==
  /\ Len(hub.logged) < MaxLines
  /\ LET line == Len(hub.logged) + 1
     IN hub' = [hub EXCEPT !.log_messages = Append(@, line), !.logged = Append(@, line),
                           !.ret = Did("on_log")]
  /\ HubRest

\* get_info (progress.rs 221-223)
HubGetInfo ==
  /\ hub' = [hub EXCEPT !.ret = [of |-> "get_info", val |-> hub.info, before |-> Kept(hub)]]
  /\ HubRest

\* take_logs (progress.rs 226-229)
HubTakeLogs ==
  /\ LET r == take_logs(hub.log_messages)
     IN hub' = [hub EXCEPT !.log_messages = r.left, !.taken = @ \o r.ret,
                           !.ret = [of |-> "take_logs", val |-> r.ret, before |-> Kept(hub)]]
  /\ HubRest

\* peek_logs (progress.rs 232-234)
HubPeekLogs ==
  /\ hub' = [hub EXCEPT !.ret = [of |-> "peek_logs", val |-> hub.log_messages, before |-> Kept(hub)]]
  /\ HubRest

\* reset (progress.rs 238-243): the snapshot is the default again and the
\* lines not yet taken are dropped
HubReset ==
  /\ hub.resets = 0
  /\ hub' = [hub EXCEPT !.info = 0, !.last = 0, !.log_messages = <<>>, !.resets = @ + 1,
                        !.ret = Did("reset")]
  /\ HubRest

NextHub ==
  \/ HubOnProgress
  \/ HubOnLog
  \/ HubGetInfo
  \/ HubTakeLogs
  \/ HubPeekLogs
  \/ HubReset

SpecHub == InitHub /\ [][NextHub]_vars

\* ------------------------------------------- secure_remove_dir_all alone
\* One call of secure_remove_dir_all (utils.rs 132-148) on the path d, step
\* by step: every visit of an entry and every remove_dir is a step.  The
\* secure erase of a file is one step here (its passes are the subject of
\* the securely_delete_file section); it fails for the files in rm.fail, as
\* read_dir fails for the directories in rm.fail.
D == <<"d">>

\* the trees the call is made on: a file in place of the directory, an
\* empty directory, and directories with files down to three levels
WipeTrees ==
  LET E == Child(D, "e")
      a == {<<Child(D, "a"), F11>>}
      e == {<<E, DirNode>>}
      b == {<<Child(E, "b"), F11>>}
      u == {<<Child(E, "u"), DirNode>>}
      x == {<<Child(Child(E, "u"), "x"), F11>>}
  IN {Tree({<<D, F11>>})}
       \cup {Tree({<<D, DirNode>>} \cup k) :
               k \in {{}, a, e, a \cup e, e \cup b, a \cup e \cup b, e \cup u, a \cup e \cup b \cup u,
                      e \cup u \cup x, a \cup e \cup u \cup x, a \cup e \cup b \cup u \cup x}}

InitWipe ==
  /\ opts = [DefOpts EXCEPT !.shred_files = TRUE]
  /\ flaky = {}
  /\ cancel = FALSE
  /\ cancelSeen = FALSE
  /\ stats = ZeroStats
  /\ obsLog = <<>>
  /\ logLog = <<>>
  /\ logFileOpen = FALSE
  /\ run = NoRun
  /\ t = [p \in {} |-> NoTask]
  /\ paused = FALSE
  /\ pubs = <<>>
  /\ snap = IdleInfo
  /\ er = NoErase
  /\ pool = 0
  /\ mp = NoMatch
  /\ ctr = NoCounting
  /\ hub = NoHub
  /\ ui = NoUI
  /\ \E f \in WipeTrees :
       \E bad \in {{}} \cup {{p} : p \in DOMAIN f} :
       /\ fs = f
       /\ fs0 = f
       /\ rm = [NoWipe EXCEPT !.pc = "call", !.dir = D, !.fail = bad]

\* the result is thrown away
Try_never(res) == FALSE

\* `?`: an Err makes the function return it at once
Try(res) == res = "err"

\* fs::remove_dir works on an empty directory only
remove_dir_res(f, p) == IF {r \in DOMAIN f : IsPrefix(p, r) /\ r # p} = {} THEN "ok" ELSE "err"

WipeRest ==
  UNCHANGED <<fs0, opts, flaky, cancel, cancelSeen, stats, obsLog, logFileOpen, run, t,
              paused, pubs, snap, er, pool, mp, ctr, hub, ui>>

WipeAbort == rm' = [rm EXCEPT !.pc = "done", !.res = "err", !.stack = <<>>]

\* the call itself: `if dir.is_dir()`, then `fs::read_dir(dir)?`
WipeCall ==
  /\ rm.pc = "call"
  /\ IF ~is_dir(fs, rm.dir) THEN rm' = [rm EXCEPT !.pc = "done", !.res = "ok"]
     ELSE IF Try(IF rm.dir \in rm.fail THEN "err" ELSE "ok") THEN WipeAbort
     ELSE \E ord \in Orders(read_dir(fs, rm.dir)) :
            rm' = [rm EXCEPT !.pc = "loop", !.stack = <<[dir |-> rm.dir, left |-> ord]>>]
  /\ UNCHANGED <<fs, logLog>>
  /\ WipeRest

\* the body of the loop on the next entry (utils.rs 135-142): a recursive
\* call for a directory, the secure erase for anything else
WipeEntry ==
  /\ rm.pc = "loop"
  /\ rm.stack[Len(rm.stack)].left # <<>>
  /\ LET top == rm.stack[Len(rm.stack)]
         path == Child(top.dir, Head(top.left))
         res == IF path \in rm.fail THEN "err" ELSE "ok"
         next == [rm EXCEPT !.stack[Len(rm.stack)].left = Tail(@)]
     IN IF is_dir(fs, path)
          THEN /\ IF Try(res) THEN WipeAbort
                  ELSE IF res = "err" THEN rm' = next
                  ELSE \E ord \in Orders(read_dir(fs, path)) :
                         rm' = [rm EXCEPT !.stack = Append(@, [dir |-> path, left |-> ord])]
               /\ UNCHANGED <<fs, logLog>>
        ELSE IF Try(res) THEN WipeAbort /\ UNCHANGED <<fs, logLog>>
        ELSE IF res = "err" THEN rm' = next /\ UNCHANGED <<fs, logLog>>
        ELSE /\ rm' = [next EXCEPT !.erased = Append(@, path)]
             /\ fs' = Remove(fs, path)
             /\ logLog' = Append(logLog, "securely_deleted")
  /\ WipeRest

\* after the loop (utils.rs 144-147): remove_dir, one line to the log file,
\* and the return to the caller's loop
WipeRemove ==
  /\ rm.pc = "loop"
  /\ rm.stack[Len(rm.stack)].left = <<>>
  /\ LET top == rm.stack[Len(rm.stack)]
         res == remove_dir_res(fs, top.dir)
         rest == SubSeq(rm.stack, 1, Len(rm.stack) - 1)
         back == IF rest = <<>> THEN rest ELSE [rest EXCEPT ![Len(rest)].left = Tail(@)]
         ret == [rm EXCEPT !.stack = back, !.pc = IF rest = <<>> THEN "done" ELSE "loop",
                            !.res = IF rest = <<>> THEN "ok" ELSE @]
     IN IF Try(res) THEN WipeAbort /\ UNCHANGED <<fs, logLog>>
        ELSE IF res = "err" THEN rm' = ret /\ UNCHANGED <<fs, logLog>>
        ELSE /\ rm' = [ret EXCEPT !.removed = Append(@, top.dir)]
             /\ fs' = Remove(fs, top.dir)
             /\ logLog' = Append(logLog, "securely_removed_dir")
  /\ WipeRest

NextWipe == WipeCall \/ WipeEntry \/ WipeRemove

SpecWipe == InitWipe /\ [][NextWipe]_vars

\* ------------------------------------- a new copy started during a run
\* The GUI starts a copy while the thread of the previous one is still at
\* work (commands.rs 10-35, gui.rs 85-104): nothing in start_copy looks at
\* the state of the previous run.  Both threads hold clones of the one
\* SharedProgress of the application, so the reset reaches the flags the
\* running engine reads.  The state followed here is that of the first
\* run; of the second only the spawn is recorded.
StartCopyDuring ==
  /\ run.pc = "copy"
  /\ run.n = 1
  /\ ui.spawned < MaxRuns - 1
  /\ cancel' = FALSE
  /\ paused' = FALSE
  /\ snap' = IdleInfo
  /\ ui' = [ui EXCEPT !.spawned = @ + 1]
  /\ UNCHANGED <<fs, fs0, opts, flaky, cancelSeen, stats, obsLog, logLog, logFileOpen, run, t,
               pubs, er, pool, mp, ctr, hub, rm>>

NextGui == NextUI \/ StartCopyDuring

SpecGui == InitUI /\ [][NextGui]_vars

\* ------------------------------------------------- toggle_pause alone
\* MaxTogglers threads call toggle_pause (progress.rs 211-214) on one
\* SharedProgress, each at most once and at any pace.  The load and the
\* store are two atomic operations, each a step of its own.
Togglers == 1..MaxTogglers

InitToggle ==
  /\ IdleRun
  /\ mp = NoMatch
  /\ ctr = NoCounting
  /\ hub = NoHub
  /\ rm = NoWipe
  /\ ui = [NoUI EXCEPT !.pc = [i \in Togglers |-> "idle"], !.current = [i \in Togglers |-> FALSE]]

\* `let current = self.pause_flag.load(Ordering::Relaxed);`
ToggleLoad(i) ==
  /\ ui.pc[i] = "idle"
  /\ ui' = [ui EXCEPT !.pc[i] = "loaded", !.current[i] = paused]
  /\ UNCHANGED <<paused, fs, fs0, opts, flaky, cancel, cancelSeen, stats, obsLog, logLog, logFileOpen, run, t,
               pubs, snap, er, pool, mp, ctr, hub, rm>>

\* `self.pause_flag.store(!current, Ordering::Relaxed);`
ToggleStore(i) ==
  /\ ui.pc[i] = "loaded"
  /\ paused' = ~ui.current[i]
  /\ ui' = [ui EXCEPT !.pc[i] = "done"]
  /\ UNCHANGED <<fs, fs0, opts, flaky, cancel, cancelSeen, stats, obsLog, logLog, logFileOpen, run, t,
               pubs, snap, er, pool, mp, ctr, hub, rm>>

NextToggle == \E i \in Togglers : ToggleLoad(i) \/ ToggleStore(i)

SpecToggle == InitToggle /\ [][NextToggle]_vars

\* ================================================================ claims

\* the task of p takes its first step in this transition
Starts(p) == (p \notin DOMAIN t \/ t[p].pc = "todo") /\ p \in DOMAIN t' /\ t'[p].pc # "todo"

\* C1: when copy_file is called on a file that matches a pattern, with the
\* cancel flag clear, it goes on to copy (or, in list-only mode, to list) the
\* file exactly when force-overwrite is on, the destination is missing, the
\* source is newer, or the timestamps are equal and the sizes differ; in
\* every other case it counts the file as skipped and leaves the file
\* system alone.  A file that ends up copied went through a transfer, a
\* skipped one never did.
C1_Decision ==
  \A p \in DOMAIN t' :
    LET d == t'[p].dst
        wanted == \/ opts.force_overwrite
                  \/ ~exists(fs, d)
                  \/ fs[p].mtime > fs[d].mtime
                  \/ fs[p].mtime = fs[d].mtime /\ fs[p].size # fs[d].size
    IN /\ ( /\ Starts(p) /\ ~cancel /\ is_file(fs, p) /\ MatchesAny(opts, Base(p))
            /\ t'[p].out \notin {"ignored", "io"} )
          => IF wanted
               THEN /\ stats'.files_skipped = stats.files_skipped
                    /\ IF opts.list_only THEN t'[p].out = "listed" ELSE t'[p].pc = "cf_loop"
               ELSE /\ t'[p].out = "skipped"
                    /\ stats'.files_skipped = stats.files_skipped + 1
                    /\ fs' = fs
       /\ t'[p].out = "copied" => t'[p].att >= 1
       /\ t'[p].out = "skipped" => t'[p].att = 0

C1_ShouldCopy == [][C1_Decision]_vars

\* one file was skipped because its destination was up to date while
\* another one of the same run was copied
C1_Witness ==
  \E p, q \in DOMAIN t :
    /\ t[p].out = "skipped" /\ t[q].out = "copied"
    /\ ~opts.force_overwrite
    /\ stats.files_skipped >= 1

\* a copy_directory call on a directory that returned Ok after its purge step
Synced(f) == t[f].pc = "done" /\ t[f].out = "synced"

\* a run over one source root that was asked to purge and returned Ok
\* without having been cancelled
MirrorRunDone ==
  /\ run.pc = "done" /\ run.res = "ok" /\ ~cancel
  /\ opts.purge \/ opts.mirror
  /\ ~opts.list_only
  /\ Len(opts.sources) = 1

FilesOf(f, dir) == {n \in read_dir(f, dir) : is_file(f, Child(dir, n))}
DirsOf(f, dir) == {n \in read_dir(f, dir) : is_dir(f, Child(dir, n))}

\* C2 as the spec states it: after a mirror run every visited destination
\* directory holds exactly the names of the pattern-matching source entries
\* (subdirectories may or may not count as matching).
C2_MirrorClosure ==
  MirrorRunDone =>
    \A f \in DOMAIN t :
      Synced(f) =>
        LET names == read_dir(fs, t[f].dst)
            matching == {n \in FilesOf(fs0, f) : MatchesAny(opts, n)}
        IN matching \subseteq names /\ names \subseteq matching \cup DirsOf(fs0, f)

\* C2, amended: after a mirror run every visited destination directory holds
\* every pattern-matching source file, and holds no name that was not among
\* the source entries (matching or not) read at the start of the visit.
C2_MirrorBounds ==
  MirrorRunDone =>
    \A f \in DOMAIN t :
      Synced(f) =>
        LET names == read_dir(fs, t[f].dst)
            matching == {n \in FilesOf(fs0, f) : MatchesAny(opts, n)}
        IN matching \subseteq names /\ names \subseteq {t[f].ents[i] : i \in DOMAIN t[f].ents}

\* a mirror run has purged an extra destination entry and kept a file whose
\* source does not match the pattern
C2_Witness ==
  /\ MirrorRunDone
  /\ stats.files_removed >= 1
  /\ \E f \in DOMAIN t :
       /\ Synced(f)
       /\ \E n \in read_dir(fs, t[f].dst) : is_file(fs0, Child(f, n)) /\ ~MatchesAny(opts, n)

\* C3 as the spec states it: without force-overwrite a second run on the
\* unmodified trees copies no file.
C3_Idempotent ==
  (run.n >= 2 /\ ~opts.force_overwrite) => stats.files_copied = 0

\* C3, amended: without force-overwrite, list-only and empty-files, a second
\* run over one source root on the unmodified trees copies no file.
C3_IdempotentTransfer ==
  ( /\ run.n >= 2
    /\ ~opts.force_overwrite /\ ~opts.list_only /\ ~opts.empty_files
    /\ Len(opts.sources) = 1 )
  => stats.files_copied = 0

\* the second run has finished and skipped a file after the first run copied one
C3_Witness ==
  /\ run.n = 2 /\ run.pc = "done" /\ run.res = "ok"
  /\ ~opts.force_overwrite /\ ~opts.list_only /\ ~opts.empty_files
  /\ run.prev >= 1
  /\ stats.files_skipped >= 1
  /\ stats.files_copied = 0

Failed == {p \in DOMAIN t : t[p].out = "failed"}

\* C4 as the spec states it: a transfer that fails on every attempt, without
\* cancellation, is attempted exactly `retries` times with a sleep between
\* consecutive attempts, then counted failed once and its error returned.
C4_ExactlyRetries ==
  ~cancel =>
    /\ \A p \in Failed :
         t[p].att = opts.retries /\ t[p].slp = t[p].att - 1 /\ t[p].res = "err"
    /\ stats.files_failed = Cardinality(Failed)

\* C4, amended: the number of attempts is `retries`, and one when retries
\* is zero.
C4_AtLeastOneAttempt ==
  ~cancel =>
    /\ \A p \in Failed :
         /\ t[p].att = (IF opts.retries = 0 THEN 1 ELSE opts.retries)
         /\ t[p].slp = t[p].att - 1
         /\ t[p].res = "err"
    /\ stats.files_failed = Cardinality(Failed)

\* a file has failed after two attempts and one sleep
C4_Witness ==
  /\ ~cancel
  /\ \E p \in Failed : t[p].att = 2 /\ t[p].slp = 1 /\ opts.retries = 2
  /\ stats.files_failed = 1

\* C5: a call whose transfer was interrupted by the cancel flag returns Ok
\* and is not counted as failed, and a run in which nothing but the
\* cancellation went wrong returns Ok.
C5_CancelIsNotFailure ==
  /\ \A p \in DOMAIN t : t[p].intr => (t[p].res # "err" /\ t[p].out # "failed")
  /\ (cancelSeen /\ flaky = {} /\ run.why = "copy") => \E p \in DOMAIN t : t[p].out = "io"

\* C6: once an is_cancelled() call has returned true, no line is handed to
\* the observer or to the logger any more.
C6_Step == cancelSeen => (obsLog' = obsLog /\ logLog' = logLog)

C6_SilentAfterCancel == [][C6_Step]_vars

RECURSIVE SumLen(_)
SumLen(ps) ==
  IF ps = {} THEN 0 ELSE LET p == CHOOSE q \in ps : TRUE IN t[p].len + SumLen(ps \ {p})

\* C7: the counters reflect completed operations only: a transfer that the
\* cancel flag interrupted is in none of files_copied, files_skipped and
\* files_failed, and bytes_copied is the size of the files fully transferred.
C7_OnlyCompletedCounted ==
  /\ stats.files_failed = Cardinality({p \in Failed : ~t[p].intr})
  /\ stats.files_skipped = Cardinality({p \in DOMAIN t : t[p].out = "skipped"})
  /\ stats.files_copied = Cardinality({p \in DOMAIN t : t[p].out \in {"copied", "listed"}})
  /\ \A p \in DOMAIN t : t[p].intr => t[p].out \notin {"copied", "listed", "skipped"}
  /\ ~opts.list_only => stats.bytes_copied = SumLen({p \in DOMAIN t : t[p].out = "copied"})

KidsIn(tt, f) == {Child(f, tt[f].ents[i]) : i \in DOMAIN tt[f].ents}
HasFailedKid(tt, f) == \E q \in KidsIn(tt, f) : tt[q].res = "err"

\* what fail-fast means in one state: a frame one of whose entries returned
\* an error never purges and returns an error itself, with one thread no
\* entry enumerated after the failed one has been touched, and a run one of
\* whose sources returned an error returns an error
FailFastIn(tt, rr) ==
  /\ \A f \in DOMAIN tt :
       HasFailedKid(tt, f) =>
         /\ tt[f].pc # "cd_purge"
         /\ tt[f].pleft = <<>>
         /\ tt[f].pc = "done" => tt[f].res = "err"
         /\ opts.threads <= 1 =>
              \A i, j \in DOMAIN tt[f].ents :
                (i < j /\ tt[Child(f, tt[f].ents[i])].res = "err")
                  => tt[Child(f, tt[f].ents[j])].pc = "todo"
  /\ ( /\ rr.pc = "done"
       /\ \E i \in DOMAIN opts.sources :
            opts.sources[i] \in DOMAIN tt /\ tt[opts.sources[i]].res = "err" )
     => rr.res = "err"

\* C8: once an entry of a batch has returned an error, no sibling that has
\* not started is started, the directory does not purge, and the error is
\* returned by copy_directory and by run; with one thread nothing later in
\* enumeration order is processed.
C8_Step ==
  /\ \A f \in DOMAIN t :
       HasFailedKid(t, f) =>
         \A p \in KidsIn(t, f) : (t[p].pc = "todo" /\ p \in DOMAIN t') => t'[p].pc = "todo"
  /\ FailFastIn(t', run')

C8_FailFast == [][C8_Step]_vars

\* a purging run has ended with an error: one entry failed, a sibling was
\* never started and an extra destination entry is still there
C8_Witness ==
  /\ run.pc = "done" /\ run.res = "err"
  /\ opts.purge \/ opts.mirror
  /\ \E f \in DOMAIN t :
       /\ t[f].pc = "done" /\ t[f].res = "err"
       /\ \E q \in KidsIn(t, f) : t[q].out = "failed"
       /\ \E q \in KidsIn(t, f) : t[q].pc = "todo"
       /\ \E n \in read_dir(fs, t[f].dst) : n \notin read_dir(fs0, f)

\* C9: a list-only run leaves the file system as it found it.
C9_ListOnlyTouchesNothing == opts.list_only => fs = fs0

\* C10: when a source path is missing, or the destination is a source root
\* or lies inside one, run returns an error and has written nothing: no
\* directory, no file, no log file.
C10_PreconditionFatal ==
  ( /\ run.pc # "start"
    /\ \E i \in DOMAIN opts.sources :
         \/ ~exists(fs0, opts.sources[i])
         \/ IsPrefix(opts.sources[i], opts.destination) )
  => /\ run.pc = "done" /\ run.res = "err" /\ run.why = "precondition"
     /\ fs = fs0
     /\ ~logFileOpen

\* C11, for the operations that delete: while the pause flag is set and the
\* cancel flag is clear, no step of the run removes a path from the file
\* system (no purge deletion, no secure erase, no removal of a moved source).
C11_PausedStep == (paused /\ ~cancel) => (DOMAIN fs \subseteq DOMAIN fs')

C11_NoDeletionWhilePaused == [][C11_PausedStep]_vars

ErasePasses == <<"FF", "00", "AA", "55", "F0", "0F", "random">>

\* C12: the secure erase of a file of N bytes makes seven passes, with the
\* values 0xFF, 0x00, 0xAA, 0x55, 0xF0, 0x0F and then random bytes, each
\* from offset 0 and N bytes long, each flushed; the file is unlinked only
\* after the seventh pass, and when an operation fails the file stays and
\* the error is returned.
C12_SevenPasses ==
  LET N == fs0[er.path].size
      linked == er.path \in DOMAIN fs
  IN er.pc # "off" =>
       /\ \A i \in DOMAIN er.passes :
            /\ i <= Len(ErasePasses)
            /\ er.passes[i] = [val |-> ErasePasses[i], from |-> 0, len |-> N]
       /\ er.flushes = Len(er.passes)
       /\ ~linked => (Len(er.passes) = Len(ErasePasses) /\ er.res = "ok")
       /\ er.res = "ok" => ~linked
       /\ er.res = "err" => linked
       /\ (er.pc = "done" /\ er.fail = 0) => er.res = "ok"

\* a file of several buffers has been erased and unlinked
C12_Witness ==
  /\ er.pc = "done" /\ er.res = "ok"
  /\ fs0[er.path].size > EraseBuf
  /\ er.path \notin DOMAIN fs
  /\ Len(er.passes) = Len(ErasePasses)

\* C13: a source file that matches none of the configured patterns (of
\* which there is at least one) is invisible to the run: no transfer of it
\* is attempted, it is not listed, and it is in none of the copied, skipped
\* and failed counts.
C13_Invisible ==
  \A p \in DOMAIN t :
    (opts.patterns # <<>> /\ is_file(fs0, p) /\ ~MatchesAny(opts, Base(p)))
      => (t[p].att = 0 /\ t[p].out \notin {"copied", "listed", "skipped", "failed"})

Captured(tt, f) == {tt[f].ents[i] : i \in DOMAIN tt[f].ents}

\* a directory whose purge step has run to its end leaves a destination
\* that holds no name outside the captured source names and still holds
\* every entry it had under a captured name
PurgedRight(ff, tt) ==
  \A f \in DOMAIN tt :
    (tt[f].pc = "done" /\ tt[f].out = "synced" /\ (opts.purge \/ opts.mirror) /\ ~opts.list_only)
      => /\ read_dir(ff, tt[f].dst) \subseteq Captured(tt, f)
         /\ \A n \in read_dir(fs0, tt[f].dst) \cap Captured(tt, f) : n \in read_dir(ff, tt[f].dst)

\* C14: in a purge step that is not cancelled, a destination entry whose
\* name is not among the captured source names is deleted (a directory with
\* all it holds; through the secure eraser when shred is on) and counted
\* once in files_removed or dirs_removed, and an entry whose name is among
\* them is left alone and not counted; when the purge of a directory has
\* ended, its destination holds captured names only.
C14_Step ==
  /\ \A f \in DOMAIN t :
       (t[f].pc = "cd_purge" /\ ~cancel /\ f \in DOMAIN t' /\ t'[f] # t[f]) =>
         LET n == Head(t[f].pleft)
             path == Child(t[f].dst, n)
             Under(ff) == {q \in DOMAIN ff : IsPrefix(t[f].dst, q)}
             extra == n \notin Captured(t, f) /\ exists(fs, path)
         IN /\ Under(fs') = IF extra THEN {q \in Under(fs) : ~IsPrefix(path, q)} ELSE Under(fs)
            /\ \A q \in Under(fs') : fs'[q] = fs[q]
            /\ stats'.files_removed = stats.files_removed + (IF extra /\ is_file(fs, path) THEN 1 ELSE 0)
            /\ stats'.dirs_removed = stats.dirs_removed + (IF extra /\ is_dir(fs, path) THEN 1 ELSE 0)
            /\ (extra /\ opts.shred_files) =>
                 \E i \in (Len(logLog) + 1)..Len(logLog') :
                   logLog'[i] \in {"securely_deleted", "securely_removed_dir"}
  /\ ~cancel' => PurgedRight(fs', t')

CopiesKept(ff, tt) ==
  \A p \in DOMAIN tt : (tt[p].out = "copied" /\ ~opts.empty_files) => is_file(ff, tt[p].dst)

\* C15: a directory purges only when all its entries are done, no entry of
\* its destination disappears while its batch is under way, and the copy of
\* a file survives the purge even when the move has removed its source.
C15_Step ==
  /\ \A f \in DOMAIN t' : t'[f].pc = "cd_purge" => \A q \in KidsIn(t', f) : t'[q].pc = "done"
  /\ \A f \in DOMAIN t :
       (t[f].pc = "cd_batch" /\ f \in DOMAIN t' /\ t'[f].pc = "cd_batch") =>
         \A n \in read_dir(fs, t[f].dst) : n \in read_dir(fs', t[f].dst)
  /\ CopiesKept(fs', t')

C15_PurgeAfterChildren == [][C15_Step]_vars

\* a moving, purging run has ended: a source file is gone, its copy is in
\* the destination, and an extra entry has been purged
C15_Witness ==
  /\ run.pc = "done" /\ run.res = "ok" /\ ~cancel
  /\ opts.move_files /\ (opts.purge \/ opts.mirror)
  /\ stats.files_removed >= 1
  /\ \E p \in DOMAIN t : t[p].out = "copied" /\ ~exists(fs, p) /\ is_file(fs, t[p].dst)

\* directories whose enumeration failed in this run
ReadFailed ==
  {p \in DOMAIN t : \/ t[p].out \in {"unread", "purge_unread"}
                     \/ (t[p].out = "io" /\ p \in flaky /\ is_dir(fs, p))}

\* C20: when the enumeration of a directory has failed, the call on that
\* directory returns the error and the run does not end with Ok.
C20_ReadErrorsPropagate ==
  /\ \A p \in ReadFailed : t[p].res = "err"
  /\ (run.pc = "done" /\ ReadFailed # {}) => run.res = "err"

Terminal == {"Completed", "Cancelled", "Failed"}

\* C16: a run that has passed the precondition checks and has returned has
\* published a snapshot in a terminal state (Completed, Cancelled or
\* Failed) as its last one, whether it ended normally, cancelled or with
\* an error.
C16_TerminalSnapshot ==
  (run.pc = "done" /\ run.why # "precondition")
    => (pubs # <<>> /\ pubs[Len(pubs)] \in Terminal /\ snap.state \in Terminal)

\* the states a run publishes, in order, repeats left out
Published == IF opts.show_progress THEN <<"Scanning", "Copying", "Completed">>
                                   ELSE <<"Copying", "Completed">>

\* C17: the states published in a run, repeats left out, are a prefix of
\* Scanning (when progress is enabled), Copying, Completed: Scanning never
\* follows Copying and nothing follows the terminal state, for every
\* thread count.
C17_StateOrder ==
  /\ Len(pubs) <= Len(Published)
  /\ pubs = SubSeq(Published, 1, Len(pubs))
  /\ (pubs # <<>>) => snap.state = pubs[Len(pubs)]

\* a run on two threads has copied two files, published a snapshot after
\* their chunks, and ended with Completed
C17_Witness ==
  /\ run.pc = "done" /\ run.res = "ok"
  /\ opts.threads > 1
  /\ stats.files_copied >= 2 /\ stats.bytes_copied >= 2
  /\ pubs = Published

\* C18: the Completed snapshot reports the final counters: files_done is
\* files_copied and bytes_done is bytes_copied.
C18_CompletedTotals ==
  (snap.state = "Completed")
    => (snap.files_done = stats.files_copied /\ snap.bytes_done = stats.bytes_copied)

\* C19: with a log file configured, the observer and the log file have
\* received the same lines in the same order.
C19_BothSinks == opts.log_file => obsLog = logLog

\* the characters a glob or the legacy rules treat as wildcards
Plain(s) == \A i \in DOMAIN s : s[i] \notin {"*", "?", "["}

\* C21: for a pattern *S, P*, *M* or one without wildcards (S, P, M free
\* of wildcards), matches_pattern returns true exactly for the names that
\* end in S, start with P, contain M, or are the pattern itself.
C21_DocumentedLiterals ==
  (mp.pc = "done") =>
    LET pat == mp.pat
        name == mp.name
        n == Len(pat)
    IN /\ (n >= 1 /\ pat[1] = "*" /\ Plain(Tail(pat)))
            => (mp.res <=> EndsWith(name, Tail(pat)))
       /\ (n >= 1 /\ pat[n] = "*" /\ Plain(SubSeq(pat, 1, n - 1)))
            => (mp.res <=> StartsWith(name, SubSeq(pat, 1, n - 1)))
       /\ (n >= 2 /\ pat[1] = "*" /\ pat[n] = "*" /\ Plain(SubSeq(pat, 2, n - 1)))
            => (mp.res <=> Contains(name, SubSeq(pat, 2, n - 1)))
       /\ Plain(pat) => (mp.res <=> name = pat)

\* C22: for every pattern that compiles as a glob, matches_pattern returns
\* the result of the glob match for every name.
C22_GlobDecides ==
  (mp.pc = "done" /\ GlobCompiles(mp.pat)) => (mp.res <=> GlobMatches(mp.pat, mp.name))

\* the files a scan with a match-all pattern counts under p
ScanAll(p) == scan_source(fs0, [opts EXCEPT !.patterns = <<StarPat>>], flaky, p)

\* C23: with an empty pattern list the run behaves as with a match-all
\* pattern: no source file is passed over for want of a matching pattern,
\* and the scan counts every file a match-all scan counts.
C23_EmptyIsMatchAll ==
  (opts.patterns = <<>>) =>
    /\ \A p \in DOMAIN t : t[p].out # "no_match"
    /\ (run.pc # "start" /\ run.why # "precondition" /\ opts.show_progress) =>
         \A i \in DOMAIN opts.sources :
           scan_source(fs0, opts, flaky, opts.sources[i]) = ScanAll(opts.sources[i])

\* C24: all counters of the Statistics are zero when run() starts, also
\* when the engine has run before.
C24_FreshCounters == (run.pc = "start") => (stats = ZeroStats)

\* with one thread the entries of a directory are taken one at a time in
\* the order of the enumeration
OneAtATime ==
  \A f \in DOMAIN t :
    \A i, j \in DOMAIN t[f].ents :
      (i < j /\ t[Child(f, t[f].ents[j])].pc # "todo") => t[Child(f, t[f].ents[i])].pc = "done"

\* C26: never more than `threads` entries are being processed at once, and
\* with one thread the entries are processed one at a time in enumeration
\* order, in every run of the process.
C26_BoundedPool ==
  /\ Cardinality(Busy) <= opts.threads
  /\ opts.threads = 1 => OneAtATime

Counters == DOMAIN ZeroStats

RECURSIVE SumMid(_, _)
SumMid(mid, ws) ==
  IF ws = {} THEN 0
  ELSE LET w == CHOOSE v \in ws : TRUE
       IN (IF mid[w] = -1 THEN 0 ELSE mid[w]) + SumMid(mid, ws \ {w})

\* every counter holds the total of the calls made on it, less the bytes of
\* the add_file_copied calls that are between their two increments
AllCounted(st, c) ==
  /\ \A k \in Counters \ {"bytes_copied"} : st[k] = c.calls[k]
  /\ st.bytes_copied + SumMid(c.mid, DOMAIN c.mid) = c.calls.bytes_copied

\* C25: no step of any worker lowers a counter, and no increment is lost:
\* each counter equals the number (or byte sum) of the add_* calls made.
C25_Step ==
  /\ \A k \in Counters : stats'[k] >= stats[k]
  /\ AllCounted(stats', ctr')

C27_LatestWinsDrainOnce ==
  /\ hub.ret.of = "get_info" => (hub.ret.val = hub.last /\ hub.ret.before = Kept(hub))
  /\ hub.resets = 0 => hub.taken \o hub.log_messages = hub.logged
  /\ hub.ret.of = "take_logs" => (hub.log_messages = <<>> /\ hub.ret.val = hub.ret.before.log_messages)
  /\ hub.ret.of = "peek_logs" => (hub.ret.val = hub.log_messages /\ hub.ret.before = Kept(hub))

\* every line has been logged and taken, the last take returned only the
\* later ones, and the snapshot has been overwritten
C27_Witness ==
  /\ hub.resets = 0
  /\ hub.ret.of = "take_logs"
  /\ hub.ret.val # <<>>
  /\ Len(hub.ret.val) < Len(hub.taken)
  /\ Len(hub.taken) = MaxLines
  /\ hub.last = MaxSnaps

\* C28: once the cancel flag is set no transfer attempt starts for any
\* file, and a copy_file call that finds the flag set at the head of its
\* retry loop returns Ok, cancelled, with the counters and the files as
\* they were.
C28_Step ==
  cancel =>
    /\ \A p \in DOMAIN t' : t'[p].att = IF p \in DOMAIN t THEN t[p].att ELSE 0
    /\ \A p \in DOMAIN t :
         (t[p].pc = "cf_loop" /\ p \in DOMAIN t' /\ t'[p] # t[p]) =>
           /\ t'[p].pc = "done" /\ t'[p].res = "ok" /\ t'[p].out = "cancelled"
           /\ stats' = stats
           /\ fs' = fs
    /\ \A p \in DOMAIN t :
         (t[p].pc = "todo" /\ is_file(fs, p) /\ p \in DOMAIN t' /\ t'[p] # t[p]) =>
           /\ t'[p].pc = "done" /\ t'[p].res = "ok" /\ t'[p].out \in {"cancelled", "ignored"}
           /\ stats' = stats
           /\ fs' = fs

UIFiles == {Child(S, "a"), Child(Child(S, "d"), "a")}

\* the worker of p is in the chunk loop of copy_file_content, whose every
\* pass begins with wait_if_paused (copy.rs 399-404)
InChunkLoop(p) == p \in DOMAIN t /\ t[p].pc = "cc_loop"

\* while the pause flag is set and the cancel flag is clear, a worker in
\* the chunk loop stays where it is and its destination file is not written
C29_Step ==
  (paused /\ ~cancel) =>
    \A p \in DOMAIN t :
      t[p].pc = "cc_loop" =>
        /\ p \in DOMAIN t' /\ t'[p] = t[p]
        /\ t[p].dst \in DOMAIN fs => (t[p].dst \in DOMAIN fs' /\ fs'[t[p].dst] = fs[t[p].dst])

\* C29: a worker held in wait_if_paused stays held while pause is set and
\* cancel is clear; once the cancel flag is set it leaves the loop, and so
\* it does when the pause flag stays cleared; a cancelled run returns, also
\* when it is paused.
C29_PausedWorkerProceeds ==
  /\ [][C29_Step]_vars
  /\ \A p \in UIFiles : (InChunkLoop(p) /\ cancel) ~> ~InChunkLoop(p)
  /\ \A p \in UIFiles : <>[](~paused) => <>[](~InChunkLoop(p))
  /\ cancel ~> (run.pc = "done")

\* a paused run was cancelled and has returned with the pause flag still
\* set, the transfer it interrupted left unfinished
C29_Witness ==
  /\ run.pc = "done"
  /\ paused /\ cancel
  /\ \E p \in DOMAIN t : t[p].intr /\ t[p].wr < t[p].len

\* the files that were in a source when the run began
SourceFiles ==
  {p \in DOMAIN fs0 : is_file(fs0, p) /\ \E i \in DOMAIN opts.sources : IsPrefix(opts.sources[i], p)}

\* C30: a source file that is gone was moved: move semantics are on, the
\* run is not list-only, and the file's own transfer succeeded in this run
\* (it was attempted, ended as copied, and was not interrupted).
C30_MoveAfterSuccess ==
  \A p \in SourceFiles :
    (p \notin DOMAIN fs) =>
      /\ opts.move_files /\ ~opts.list_only
      /\ p \in DOMAIN t
      /\ t[p].pc = "done" /\ t[p].res = "ok" /\ t[p].out = "copied"
      /\ t[p].att >= 1
      /\ ~t[p].intr

\* a moved file: its first attempt failed, its second succeeded, the source
\* is gone and the copy is in place
C30_Witness ==
  /\ opts.move_files
  /\ \E p \in SourceFiles :
       /\ p \notin DOMAIN fs
       /\ t[p].out = "copied" /\ t[p].att = 2
       /\ is_file(fs, t[p].dst)

\* C31: whenever the move of a file removes its source, the destination
\* file holds at that moment as many bytes as the source did, in every
\* mode, the placeholder mode (empty_files) included.
C31_Step ==
  \A p \in DOMAIN t :
    ( /\ opts.move_files
      /\ t[p].pc \in {"cf_loop", "cc_loop"}
      /\ is_file(fs, p)
      /\ ~exists(fs', p) )
    => /\ is_file(fs', t[p].dst)
       /\ fs'[t[p].dst].size = fs[p].size

C31_NoDataLossUnderMove == [][C31_Step]_vars

\* the paths of f strictly below p
Below(f, p) == {r \in DOMAIN f : IsPrefix(p, r) /\ r # p}

\* C32: process_entry on a source subdirectory that can be read, with the
\* cancel flag clear.  With recursion off the entry is left alone: nothing
\* is copied or counted.  With recursion on, an empty subdirectory is
\* skipped when include_empty is off (dirs_skipped goes up by one, nothing
\* is created, no entry of it is visited); otherwise copy_directory is
\* called on it.  A source subdirectory disappears only in the step in
\* which its own copy_directory call has returned Ok under move_dirs
\* without list_only, and only when nothing is left below it.
C32_Step ==
  /\ \A p \in DOMAIN t' :
       ( /\ Starts(p) /\ Parent(p) \in DOMAIN t /\ t[Parent(p)].pc = "cd_batch"
         /\ is_dir(fs, p) /\ ~read_dir_fails(fs, p) /\ ~cancel )
       => IF ~opts.recursive
            THEN /\ t'[p].pc = "done" /\ t'[p].out = "ignored"
                 /\ stats' = stats /\ fs' = fs /\ DOMAIN t' = DOMAIN t
          ELSE IF ~opts.include_empty /\ read_dir(fs, p) = {}
            THEN /\ t'[p].pc = "done" /\ t'[p].out = "dir_skipped"
                 /\ stats' = [stats EXCEPT !.dirs_skipped = @ + 1]
                 /\ fs' = fs /\ DOMAIN t' = DOMAIN t
          ELSE /\ t'[p].call = "entry_dir"
               /\ stats'.dirs_skipped = stats.dirs_skipped
               /\ \/ t'[p].pc = "done" /\ t'[p].res = "err"
                  \/ /\ opts.list_only \/ is_dir(fs', t'[p].dst)
                     /\ \A n \in read_dir(fs', p) : Child(p, n) \in DOMAIN t'
                     /\ read_dir(fs', p) # {} => t'[p].pc = "cd_batch"
  /\ \A p \in DOMAIN t :
       (Len(p) > 1 /\ is_dir(fs, p) /\ ~exists(fs', p))
       => /\ opts.move_dirs /\ ~opts.list_only
          /\ t[p].call = "entry_dir"
          /\ t'[p].pc = "done" /\ t'[p].res = "ok"
          /\ Below(fs', p) = {}

C32_Subdirectories == [][C32_Step]_vars

\* under move_dirs a source subdirectory was removed after its own
\* copy_directory call had returned Ok
C32_Witness ==
  /\ opts.move_dirs
  /\ \E p \in DOMAIN t :
       /\ t[p].call = "entry_dir" /\ t[p].pc = "done" /\ t[p].res = "ok"
       /\ ~exists(fs, p)

Range(q) == {q[i] : i \in DOMAIN q}

\* C33: secure_remove_dir_all removes a directory only when nothing is
\* left below it, every file that was below it having been securely erased
\* and every directory below it removed before; files disappear by the
\* secure erase only.  When the erase of a file of the tree fails the call
\* returns the error, and the directories on the way from the argument of
\* the call down to that file all still exist.  A call that returns Ok on a
\* directory has removed the whole tree.
C33_Step ==
  \A q \in DOMAIN fs :
    ~exists(fs', q) =>
      IF is_dir(fs, q)
        THEN /\ Below(fs, q) = {}
             /\ \A r \in Below(fs0, q) :
                  IF is_file(fs0, r) THEN r \in Range(rm.erased) ELSE r \in Range(rm.removed)
        ELSE rm'.erased = Append(rm.erased, q)

C33_Done ==
  rm.pc = "done" =>
    /\ \A f \in rm.fail :
         (is_dir(fs0, rm.dir) /\ is_file(fs0, f))
         => /\ rm.res = "err"
            /\ \A q \in Prefixes(f) : q # f => is_dir(fs, q)
    /\ (rm.res = "ok" /\ is_dir(fs0, rm.dir)) => fs = remove_dir_all(fs0, rm.dir)

C33_EraseBeforeRemove == [][C33_Step]_vars /\ []C33_Done

\* the erase of a file failed after a subdirectory next to it had been
\* emptied and removed
C33_Witness ==
  /\ rm.pc = "done" /\ rm.res = "err"
  /\ rm.erased # <<>>
  /\ rm.removed # <<>>
  /\ \E f \in rm.fail : is_file(fs, f)

\* the calls of copy_file that have returned after getting past the first
\* cancel check and the read of the source metadata
Returned == {p \in DOMAIN t : t[p].pc = "done"
                              /\ t[p].out \in {"copied", "listed", "skipped", "failed", "shred_failed"}}

\* C34: in a run that is not cancelled every call of copy_file that has
\* returned has incremented exactly one of files_copied, files_skipped and
\* files_failed, and a call that returned an error, the failed secure
\* erase of a moved source included, has incremented files_failed.
C34_CompleteAccounting ==
  ~cancel =>
    /\ stats.files_copied + stats.files_skipped + stats.files_failed = Cardinality(Returned)
    /\ stats.files_failed = Cardinality({p \in Returned : t[p].res = "err"})

\* C35, the part that makes the descent finite: the run applies copy_file
\* or copy_directory only to paths that existed when it started, never to
\* a directory it created itself inside the source tree.
C35_NoSelfVisit ==
  \A p \in DOMAIN t :
    (t[p].pc # "todo" /\ t[p].out \notin {"ignored", "no_match", "dir_skipped", "cancelled"})
    => p \in DOMAIN fs0

SumOver(g, is) ==
  LET RECURSIVE Go(_)
      Go(js) == IF js = {} THEN 0 ELSE LET j == CHOOSE k \in js : TRUE IN g[j] + Go(js \ {j})
  IN Go(is)

\* files_total and bytes_total of the snapshots of this run (engine.rs
\* 89-108 and 157-158): the sums of the scan over the sources, or zero when
\* no scan is made
files_total ==
  IF opts.show_progress
    THEN SumOver([i \in DOMAIN opts.sources |-> scan_source(fs0, opts, flaky, opts.sources[i])],
                 DOMAIN opts.sources)
    ELSE 0
bytes_total ==
  IF opts.show_progress
    THEN SumOver([i \in DOMAIN opts.sources |-> scan_source_bytes(fs0, opts, flaky, opts.sources[i])],
                 DOMAIN opts.sources)
    ELSE 0

\* C36: in every snapshot published during a run files_done is at most
\* files_total and bytes_done at most bytes_total, with and without the
\* scan, for every thread count.
C36_DoneWithinTotal ==
  (run.pc # "start" /\ run.why # "precondition" /\ snap.state # "Idle")
    => (snap.files_done <= files_total /\ snap.bytes_done <= bytes_total)

\* C37: once the cancel flag has been set during a run it stays set until
\* that run() call has returned, whatever else is done to the
\* SharedProgress in between.
C37_Step == (cancel /\ run.pc # "done") => cancel'

C37_CancelNeverLost == [][C37_Step]_vars

\* C38: when no toggle_pause call is under way the pause flag is set
\* exactly when the number of calls made so far is odd.
C38_TogglesCount ==
  (\A i \in Togglers : ui.pc[i] # "loaded")
    => (paused <=> Cardinality({i \in Togglers : ui.pc[i] = "done"}) % 2 = 1)

\* a children-only run that returned Ok without having been cancelled
ChildrenRunDone == opts.child_only /\ run.pc = "done" /\ run.res = "ok" /\ ~cancel

\* C39, step by step: in children-only mode the closure applied to a file
\* that lies directly in a source root changes neither the file system nor
\* the Statistics, and nothing that lies directly in the destination root
\* is ever removed.
C39_Step ==
  opts.child_only =>
    /\ \A p \in DOMAIN t :
         (Starts(p) /\ Parent(p) \in Sources /\ is_file(fs, p))
         => (fs' = fs /\ stats' = stats /\ t'[p].pc = "done" /\ t'[p].out = "ignored")
    /\ \A n \in read_dir(fs, opts.destination) : exists(fs', Child(opts.destination, n))

\* C39, at the end of a run that returned Ok: copy_directory was applied to
\* every child directory of every source root that could be enumerated,
\* with the destination subdirectory of the same name, and returned Ok;
\* unless the run only lists, that subdirectory exists.
C39_Done ==
  ChildrenRunDone =>
    \A src \in Sources :
      (is_dir(fs0, src) /\ src \notin flaky) =>
        \A n \in DirsOf(fs0, src) :
          LET c == Child(src, n)
          IN /\ c \in DOMAIN t
             /\ t[c].call = "child" /\ t[c].pc = "done" /\ t[c].res = "ok"
             /\ t[c].dst = Child(opts.destination, n)
             /\ ~opts.list_only => is_dir(fs, Child(opts.destination, n))

====
